---- MODULE Spec2Model ----
(***************************************************************************)
(* Discogs Preview for YouTube: the sell-page parser, the price            *)
(* aggregation of the service worker (background.js) and the filter        *)
(* display logic of the toolbar popup (popup.js).                          *)
(*                                                                         *)
(* A page is a sequence of lexemes, the units the regular expressions of   *)
(* parseFilteredPage tell apart, separated by white space.  Money is an    *)
(* integer number of quarter dollars, so that the mean of two prices and   *)
(* the mean of two such means are integers too.                            *)
(***************************************************************************)
EXTENDS Integers, Sequences, FiniteSets, TLC

VARIABLES
  html,        \* parser: the page text handed to parseFilteredPage
  pg,          \* parser: the results of parseFilteredPage, one per (usOnly, vgPlus)
  pc,          \* parser: "start" before the calls, "done" after
  world,       \* the sell pages the marketplace serves, one list of fetches per entity
  cachedData,  \* popup: the search result and the filtered stats cached under filter keys
  usToggle,    \* popup: usToggle.checked
  vgToggle,    \* popup: vgToggle.checked
  selectedMatchIndex, \* popup: Null = aggregate, else index into the match list (0-based)
  inflight,    \* popup: discogs-filtered-stats requests sent and not yet answered
  sent,        \* popup: number of requests sent so far
  display,     \* popup: what renderStats last drew into globalStats
  now,         \* worker: Date.now(), in milliseconds
  ticks,       \* clock: number of times the clock has advanced
  searchCache, \* worker: searchCache, its entries in key order
  pending,     \* worker: the handleFullSearch calls that await their network answers
  searches,    \* worker: number of discogs-full-search messages received so far
  response,    \* worker: what the listener last handed to sendResponse
  lastRun,     \* worker: what the search answered last did (discovery, API calls, passes,
               \* the cache it found and the cache pruneCache left)
  discogsTimestamps, \* worker: discogsTimestamps, the times pushed after each fetch
  token,       \* worker: discogsToken in chrome.storage.sync ("" when not set)
  calls,       \* worker: the discogsGet calls in progress, one record per caller
  fetchLog,    \* network: the times at which the Discogs API fetches were issued
  results,     \* discovery: the results array shared by the parseDiscogsUrl calls
  seen,        \* discovery: the keys of the seen object
  urlLog,      \* discovery: the URLs handed to parseDiscogsUrl so far
  tracklist,   \* matcher: the tracklist handed to tracklistContains
  trackName,   \* matcher: the track name handed to tracklistContains
  found,       \* matcher: empty before the call, else what tracklistContains returned
  helper,      \* string helpers: the helper called ("" before construction of a call)
  arg,         \* string helpers: the argument of the call
  ret,         \* string helpers: empty before the call returns, else the returned value
  flows,       \* popup: the calls of init(), each with its position and its cacheRes?.data
  visible,     \* popup: the elements among setup, notYt, loading, error, main not hidden
  errorText,   \* popup: errorEl.textContent
  shown,       \* popup: the data showResults drew last ("" before the first call)
  lastRes,     \* popup: the response the full-search callback got last ("" before)
  location,    \* content script: the video id of the watch page shown, "" on another page
  domTitle,    \* content script: the video whose title the title element holds, "" if none
  currentVideoId, \* content script: currentVideoId ("" for null)
  navs,        \* content script: number of calls of onNavigate so far
  loadTimer,   \* content script: the timer of the first page load is pending
  timers,      \* content script: the pending timers of tryRun, each with its attempts
  runs,        \* content script: the searches runSearch has sent, in order
  panel        \* content script: what the body of the panel shows

popupVars == <<html, pg, pc, world, cachedData, usToggle, vgToggle, selectedMatchIndex,
               inflight, sent, display>>

cacheVars == <<searchCache, pending, searches, response, lastRun>>

rateVars == <<discogsTimestamps, token, calls, fetchLog>>

urlVars == <<results, seen, urlLog>>

trackVars == <<tracklist, trackName, found>>

helperVars == <<helper, arg, ret>>

initVars == <<flows, visible, errorText, shown, lastRes>>

contentVars == <<location, domTitle, currentVideoId, navs, loadTimer, timers, runs, panel>>

clockVars == <<now, ticks>>

vars == <<popupVars, clockVars, cacheVars, rateVars, urlVars, trackVars, helperVars, initVars,
          contentVars>>

(* JavaScript null for a price or an index; every price is > 0, every index >= 0. *)
Null == 0 - 1

(* The parts of the program a specification does not exercise stay as they  *)
(* are after the scripts have loaded.                                       *)
ClockIdle ==
  /\ now = 0
  /\ ticks = 0

CacheIdle ==
  /\ searchCache = <<>>
  /\ pending = {}
  /\ searches = 0
  /\ response = <<>>
  /\ lastRun = <<>>

RateIdle ==
  /\ discogsTimestamps = <<>>
  /\ token = ""
  /\ calls = <<>>
  /\ fetchLog = <<>>

UrlIdle ==
  /\ results = <<>>
  /\ seen = {}
  /\ urlLog = <<>>

TrackIdle ==
  /\ tracklist = <<>>
  /\ trackName = <<>>
  /\ found = <<>>

NoPanel == [kind |-> "none", run |-> 0]

ContentIdle ==
  /\ location = ""
  /\ domTitle = ""
  /\ currentVideoId = ""
  /\ navs = 0
  /\ loadTimer = FALSE
  /\ timers = {}
  /\ runs = <<>>
  /\ panel = NoPanel

InitIdle ==
  /\ flows = <<>>
  /\ visible = {}
  /\ errorText = ""
  /\ shown = ""
  /\ lastRes = ""

HelperIdle ==
  /\ helper = ""
  /\ arg = <<>>
  /\ ret = <<>>

ParserIdle ==
  /\ html = <<>>
  /\ pg = <<>>
  /\ pc = "idle"

----------------------------------------------------------------------------
(* Lexemes of a sell page                                                  *)

Marker == "Media Condition:"

GradeLabels ==
  {"Mint (M)", "Near Mint (NM or M-)", "Very Good Plus (VG+)", "Very Good (VG)",
   "Good Plus (G+)", "Good (G)", "Fair (F)", "Poor (P)"}

(* "a - b of N" pagination headers; in "of ," the digits-and-commas group  *)
(* matches without a digit.                                                *)
PaginationTok ==
  {"1 - 25 of 0", "1 - 25 of ,", "1 - 25 of 1", "1 - 25 of 3", "1 - 25 of 60",
   "1 - 25 of 26", "26 - 27 of 27"}

NoResultsTok == {"No items for sale"}

(* $-amounts: plain, prefixed with "+", and inside an "about $X" annotation *)
(* "CA$5.00": the amount pattern finds its "$5.00" behind the letters        *)
PlainAmountTok == {"$0.00", "$3.00", "$5.00", "CA$5.00"}
LetterPrefixedTok == {"CA$5.00"}
PlusAmountTok  == {"+$6.00"}
AboutAmountTok == {"about $4.00"}
AmountTok      == PlainAmountTok \cup PlusAmountTok \cup AboutAmountTok

(* amounts in euro: they hold no "$", so neither the amount test nor the    *)
(* price pattern sees them                                                  *)
EuroTok == {"€4.00", "+€1.00"}

(* Lexemes made of letters and spaces only *)
LetterTok == {"United States", "Germany", "shipping", "No items for sale"}

TagTok == {"<span>"}

(* A run of 13 white-space characters (a line break and its indentation):   *)
(* with it between the word "shipping" and an amount, the 20 characters     *)
(* before the amount no longer hold the whole word.                         *)
WideSpace == "             "

(* "Ships From:" and the variant with a space before the colon *)
ShipsFromTok == {"Ships From:", "Ships From :"}

GRADE_RANK ==
  ("Mint (M)" :> 1) @@ ("Near Mint (NM or M-)" :> 2) @@ ("Very Good Plus (VG+)" :> 3) @@
  ("Very Good (VG)" :> 4) @@ ("Good Plus (G+)" :> 5) @@ ("Good (G)" :> 6) @@
  ("Fair (F)" :> 7) @@ ("Poor (P)" :> 8)

isVGPlusOrBetter(grade) ==
  grade \in DOMAIN GRADE_RANK /\ GRADE_RANK[grade] <= 3

(* parseInt(countMatch[1].replace(/,/g, ""), 10) || 0 *)
PaginationTotal(tok) ==
  CASE tok = "1 - 25 of 0"  -> 0
    [] tok = "1 - 25 of ,"  -> 0
    [] tok = "1 - 25 of 1"  -> 1
    [] tok = "1 - 25 of 3"  -> 3
    [] tok = "1 - 25 of 60" -> 60
    [] tok = "1 - 25 of 26" -> 26
    [] tok = "26 - 27 of 27" -> 27

(* parseFloat(pm[2].replace(/,/g, "")) of the digits of an amount lexeme *)
ParseFloat(tok) ==
  CASE tok = "$0.00"       -> 0
    [] tok = "$3.00"       -> 12
    [] tok = "$5.00"       -> 20
    [] tok = "CA$5.00"     -> 20
    [] tok = "+$6.00"      -> 24
    [] tok = "about $4.00" -> 16

----------------------------------------------------------------------------
(* Sequence helpers                                                        *)

(* the least i >= from with s[i] \in S, or 0 *)
FirstIndex(s, S, from) ==
  LET I == {i \in from..Len(s) : s[i] \in S} IN
  IF I = {} THEN 0 ELSE CHOOSE i \in I : \A j \in I : i <= j

CountIn(s, S) == Cardinality({i \in 1..Len(s) : s[i] \in S})

(* html.split at the condition marker: the parts between the markers; the   *)
(* k-th part runs from the (k-1)-th marker to the k-th                      *)
SplitAt(s, sep) ==
  LET M == {i \in 1..Len(s) : s[i] = sep}
      n == Cardinality(M)
      Pos(k) == CHOOSE i \in M : Cardinality({j \in M : j < i}) = k - 1
  IN [k \in 1..(n + 1) |->
        SubSeq(s, IF k = 1 THEN 1 ELSE Pos(k - 1) + 1,
                  IF k = n + 1 THEN Len(s) ELSE Pos(k) - 1)]

----------------------------------------------------------------------------
(* parseFilteredPage                                                       *)

(* the test for a "$" followed by a digit, a comma or a dot *)
HasAmount(block) == FirstIndex(block, AmountTok, 1) # 0

(* block.match of the condition pattern (optional white space and tags,    *)
(* then one of the 8 grade labels): the pattern is not anchored, so the     *)
(* match is the first grade label anywhere in the block.                    *)
CondMatch(block) ==
  LET i == FirstIndex(block, GradeLabels, 1) IN
  IF i = 0 THEN "" ELSE block[i]

(* C4 mutant: the "Ships From" test is dropped from the validation *)
HasShipsFromDropped(block) == TRUE

(* the test for "Ships From" with optional white space before the colon *)
HasShipsFrom(block) == FirstIndex(block, ShipsFromTok, 1) # 0

RECURSIVE LetterRun(_, _, _)
(* the lexemes of the run of letters and spaces that starts at block[i] *)
LetterRun(block, i, skipTags) ==
  IF i > Len(block) THEN {}
  ELSE IF block[i] = WideSpace THEN LetterRun(block, i + 1, skipTags)
  ELSE IF skipTags /\ block[i] \in TagTok THEN LetterRun(block, i + 1, TRUE)
  ELSE IF block[i] \in LetterTok THEN {block[i]} \cup LetterRun(block, i + 1, FALSE)
  ELSE {}

(* shipMatch: "Ships From:", white space and tags, then a run of letters    *)
(* and spaces, the country, tested against /United States/i; FALSE also     *)
(* when shipMatch is null                                                   *)
ShipsFromUS(block) ==
  LET i == FirstIndex(block, {"Ships From:"}, 1) IN
  i # 0 /\ "United States" \in LetterRun(block, i + 1, TRUE)

RECURSIVE PriceScanNoShippingCheck(_, _)
(* C7 mutant: an amount right after the word "shipping" is not skipped *)
PriceScanNoShippingCheck(block, i) ==
  IF i > Len(block) THEN Null
  ELSE IF block[i] \notin AmountTok THEN PriceScanNoShippingCheck(block, i + 1)
  ELSE IF block[i] \in PlusAmountTok THEN PriceScanNoShippingCheck(block, i + 1)
  ELSE IF block[i] \in AboutAmountTok THEN PriceScanNoShippingCheck(block, i + 1)
  ELSE IF ParseFloat(block[i]) > 0 THEN ParseFloat(block[i])
  ELSE PriceScanNoShippingCheck(block, i + 1)

RECURSIVE PriceScan(_, _)
(* the while loop over priceRegex.exec(block): the first amount that is not *)
(* "+"-prefixed, not an "about" annotation, not right after "shipping", and *)
(* whose value is a number > 0; Null when the loop ends without one         *)
PriceScan(block, i) ==
  IF i > Len(block) THEN Null
  ELSE IF block[i] \notin AmountTok THEN PriceScan(block, i + 1)
  ELSE IF block[i] \in PlusAmountTok THEN PriceScan(block, i + 1)
  ELSE IF block[i] \in AboutAmountTok THEN PriceScan(block, i + 1)
  ELSE IF i > 1 /\ block[i - 1] = "shipping" /\ block[i] \notin LetterPrefixedTok
    THEN PriceScan(block, i + 1)
  ELSE IF ParseFloat(block[i]) > 0 THEN ParseFloat(block[i])
  ELSE PriceScan(block, i + 1)

(* C9 mutant: the filters are applied before the block is counted *)
ListingStepFilterFirst(block, usOnly, vgPlus, acc) ==
  LET condMatch == CondMatch(block)
      val == PriceScan(block, 1)
      matchedAcc == [acc EXCEPT !.listingsOnPage = @ + 1, !.matched = @ + 1]
  IN
  IF ~HasAmount(block) \/ condMatch = "" \/ ~HasShipsFrom(block) THEN acc
  ELSE IF vgPlus /\ ~isVGPlusOrBetter(condMatch) THEN acc
  ELSE IF usOnly /\ ~ShipsFromUS(block) THEN acc
  ELSE IF val = Null THEN matchedAcc
  ELSE [matchedAcc EXCEPT !.prices = Append(@, val),
                          !.lowest = IF @ = Null \/ val < @ THEN val ELSE @]

(* C32 mutant: lowest keeps the first price that was taken *)
ListingStepFirstIsLowest(block, usOnly, vgPlus, acc) ==
  LET condMatch == CondMatch(block)
      counted == [acc EXCEPT !.listingsOnPage = @ + 1]
      val == PriceScan(block, 1)
      matchedAcc == [counted EXCEPT !.matched = @ + 1]
  IN
  IF ~HasAmount(block) THEN acc
  ELSE IF condMatch = "" THEN acc
  ELSE IF ~HasShipsFrom(block) THEN acc
  ELSE IF vgPlus /\ ~isVGPlusOrBetter(condMatch) THEN counted
  ELSE IF usOnly /\ ~ShipsFromUS(block) THEN counted
  ELSE IF val = Null THEN matchedAcc
  ELSE [matchedAcc EXCEPT !.prices = Append(@, val),
                          !.lowest = IF @ = Null THEN val ELSE @]

(* the body of the loop over the blocks: validation (three "continue"s),    *)
(* listingsOnPage++, the VG+ filter, the US filter, matched++, the price    *)
ListingStep(block, usOnly, vgPlus, acc) ==
  LET condMatch == CondMatch(block)
      counted == [acc EXCEPT !.listingsOnPage = @ + 1]
      val == PriceScan(block, 1)
      matchedAcc == [counted EXCEPT !.matched = @ + 1]
  IN
  IF ~HasAmount(block) THEN acc
  ELSE IF condMatch = "" THEN acc
  ELSE IF ~HasShipsFrom(block) THEN acc
  ELSE IF vgPlus /\ ~isVGPlusOrBetter(condMatch) THEN counted
  ELSE IF usOnly /\ ~ShipsFromUS(block) THEN counted
  ELSE IF val = Null THEN matchedAcc
  ELSE [matchedAcc EXCEPT !.prices = Append(@, val),
                          !.lowest = IF @ = Null \/ val < @ THEN val ELSE @]

RECURSIVE ListingLoop(_, _, _, _, _)
(* for (li = 1; li < parts.length; li++): parts is 1-based here, so the     *)
(* blocks are parts[2..]; a block that is skipped leaves the counters as    *)
(* they were                                                                *)
ListingLoop(parts, li, usOnly, vgPlus, acc) ==
  IF li > Len(parts) THEN acc
  ELSE LET next == ListingStep(parts[li], usOnly, vgPlus, acc) IN
       IF next = acc THEN ListingLoop(parts, li + 1, usOnly, vgPlus, acc)
       ELSE ListingLoop(parts, li + 1, usOnly, vgPlus, next)

(* C5 mutant: the no-results phrases are not looked for *)
InitialTotalNoResultsIgnored(page) ==
  LET c == FirstIndex(page, PaginationTok, 1) IN
  IF c # 0 THEN PaginationTotal(page[c]) ELSE CountIn(page, {Marker})

(* total after the pagination / no-results / marker-count step *)
InitialTotal(page) ==
  LET c == FirstIndex(page, PaginationTok, 1) IN
  IF c # 0 THEN PaginationTotal(page[c])
  ELSE IF FirstIndex(page, NoResultsTok, 1) # 0 THEN 0
  ELSE CountIn(page, {Marker})

HasPagination(page) == FirstIndex(page, PaginationTok, 1) # 0

(* the two adjustments after the loop: the override of total and the cap *)
FinishPage(page, acc) ==
  LET hasPagination == HasPagination(page)
      total0 == InitialTotal(page)
      total == IF ~hasPagination /\ acc.listingsOnPage > 0
               THEN acc.listingsOnPage ELSE total0
      cap == hasPagination /\ total > 0
  IN [total |-> total,
      listingsOnPage |-> IF cap /\ acc.listingsOnPage > total THEN total
                         ELSE acc.listingsOnPage,
      matched |-> IF cap /\ acc.matched > total THEN total ELSE acc.matched,
      prices |-> acc.prices,
      lowest |-> acc.lowest]

parseFilteredPage(page, usOnly, vgPlus) ==
  FinishPage(page,
    ListingLoop(SplitAt(page, Marker), 2, usOnly, vgPlus,
      [listingsOnPage |-> 0, matched |-> 0, prices |-> <<>>, lowest |-> Null]))

----------------------------------------------------------------------------
(* Price aggregation of the service worker                                 *)

(* the value of a missing property, and what a sum with it gives *)
Undefined == 0 - 2
NaN == 0 - 3

(* a + b in JavaScript for counts that may be undefined *)
PlusJS(a, b) == IF a \in {Undefined, NaN} \/ b \in {Undefined, NaN} THEN NaN ELSE a + b

(* arr.sort(function(a, b) { return a - b; }): position i holds the value   *)
(* v with fewer than i elements below it and at least i elements not above  *)
SortAsc(arr) ==
  [i \in 1..Len(arr) |->
     CHOOSE v \in {arr[j] : j \in 1..Len(arr)} :
       /\ Cardinality({j \in 1..Len(arr) : arr[j] < v}) < i
       /\ i <= Cardinality({j \in 1..Len(arr) : arr[j] <= v})]


(* C26 mutant: an even length yields the upper of the two central elements *)
computeMedianUpperMiddle(sortedArr) ==
  LET n == Len(sortedArr) IN
  IF n = 0 THEN Null
  ELSE sortedArr[(n \div 2) + 1]

(* indices are 0-based in the source, 1-based here *)
computeMedian(sortedArr) ==
  LET n == Len(sortedArr) IN
  IF n = 0 THEN Null
  ELSE IF n % 2 = 1 THEN sortedArr[(n \div 2) + 1]
  ELSE (sortedArr[n \div 2] + sortedArr[(n \div 2) + 1]) \div 2

MAX_SCRAPE_PAGES == 2

(* the page size in "pg.listingsOnPage < 25" *)
FullPage == 25

(* Math.round((allMatched / totalOnPages) * totalListings) *)
Extrapolate(allMatched, totalOnPages, totalListings) ==
  (2 * allMatched * totalListings + totalOnPages) \div (2 * totalOnPages)

(* what scrapeFilteredListings returns after its loop *)
ScrapeResult(st) ==
  [numForSale |-> IF st.totalListings > st.totalOnPages /\ st.totalOnPages > 0
                  THEN Extrapolate(st.allMatched, st.totalOnPages, st.totalListings)
                  ELSE st.allMatched,
   scrapedTotal |-> st.totalListings,
   lowestPrice |-> st.lowestPrice,
   medianPrice |-> computeMedian(SortAsc(st.allPrices))]

(* the running sums after one parsed page pg of the loop *)
AddPage(st, page, p) ==
  [totalListings |-> IF page = 1 THEN p.total ELSE st.totalListings,
   totalOnPages |-> st.totalOnPages + p.listingsOnPage,
   allMatched |-> st.allMatched + p.matched,
   allPrices |-> st.allPrices \o p.prices,
   lowestPrice |-> IF p.lowest # Null /\ (st.lowestPrice = Null \/ p.lowest < st.lowestPrice)
                   THEN p.lowest ELSE st.lowestPrice]

(* C28 mutant: a full page is followed by the next one whatever the total *)
AfterPageIgnoresTotal(page, p, st1) ==
  IF page = 1 /\ st1.totalListings = 0 THEN "stop"
  ELSE IF p.listingsOnPage < FullPage THEN "break"
  ELSE "continue"

(* after a page: "stop" with no listings at all, "break" out of the loop,   *)
(* or "continue" with the next page                                         *)
AfterPage(page, p, st1) ==
  IF page = 1 /\ st1.totalListings = 0 THEN "stop"
  ELSE IF p.listingsOnPage < FullPage \/ st1.totalOnPages >= st1.totalListings THEN "break"
  ELSE "continue"

RECURSIVE ScrapeLoop(_, _, _, _, _)
(* the rest of the loop body once the page text is parsed into p *)
ScrapeFrom(fetches, page, usOnly, vgPlus, st, p) ==
  LET st1 == AddPage(st, page, p)
      after == AfterPage(page, p, st1)
  IN CASE after = "stop" ->
            [numForSale |-> 0, scrapedTotal |-> Undefined, lowestPrice |-> Null,
             medianPrice |-> Null]
       [] after = "break" -> ScrapeResult(st1)
       [] OTHER -> ScrapeLoop(fetches, page + 1, usOnly, vgPlus, st1)

(* C17 mutant: a thrown fetch ends the loop as a refused one does, with the *)
(* listings of the pages before it                                          *)
ScrapeLoopThrowBreaks(fetches, page, usOnly, vgPlus, st) ==
  IF page > MAX_SCRAPE_PAGES THEN ScrapeResult(st)
  ELSE IF fetches[page].kind # "ok" THEN ScrapeResult(st)
  ELSE ScrapeFrom(fetches, page, usOnly, vgPlus, st,
                  parseFilteredPage(fetches[page].html, usOnly, vgPlus))

(* for (page = 1; page <= MAX_SCRAPE_PAGES; page++) with its try/catch;     *)
(* fetches[page] is what fetch(pageUrl) does: "ok" with a page text,        *)
(* "notok" (res.ok false) or "throw"                                        *)
ScrapeLoop(fetches, page, usOnly, vgPlus, st) ==
  IF page > MAX_SCRAPE_PAGES THEN ScrapeResult(st)
  ELSE IF fetches[page].kind = "throw"
    THEN [numForSale |-> 0, scrapedTotal |-> 0, lowestPrice |-> Null, medianPrice |-> Null]
  ELSE IF fetches[page].kind = "notok" THEN ScrapeResult(st)
  ELSE ScrapeFrom(fetches, page, usOnly, vgPlus, st,
                  parseFilteredPage(fetches[page].html, usOnly, vgPlus))

scrapeFilteredListings(fetches, usOnly, vgPlus) ==
  ScrapeLoop(fetches, 1, usOnly, vgPlus,
    [totalListings |-> 0, totalOnPages |-> 0, allMatched |-> 0, allPrices |-> <<>>,
     lowestPrice |-> Null])

(* the body of the loop of handleFilteredStats for one scraped release *)
AddStats(acc, stats) ==
  [totalForSale |-> acc.totalForSale + stats.numForSale,
   scrapedTotal |-> PlusJS(acc.scrapedTotal, stats.scrapedTotal),
   allLowest |-> IF stats.lowestPrice # Null /\ (acc.allLowest = Null \/ stats.lowestPrice < acc.allLowest)
                 THEN stats.lowestPrice ELSE acc.allLowest,
   allMedians |-> IF stats.medianPrice # Null THEN Append(acc.allMedians, stats.medianPrice)
                  ELSE acc.allMedians,
   matchStats |-> Append(acc.matchStats, stats)]

RECURSIVE FilteredLoop(_, _, _, _, _, _)
(* the loop of handleFilteredStats over msg.matches; ents[i] names the      *)
(* entity whose sell URL matches[i] carries                                 *)
FilteredLoop(w, ents, i, usOnly, vgPlus, acc) ==
  IF i > Len(ents) THEN acc
  ELSE FilteredLoop(w, ents, i + 1, usOnly, vgPlus,
         AddStats(acc, scrapeFilteredListings(w[ents[i]], usOnly, vgPlus)))

(* the object handleFilteredStats returns: the median is taken over the     *)
(* per-release medians                                                      *)
FilteredResponse(acc) ==
  [numForSale |-> acc.totalForSale,
   scrapedTotal |-> acc.scrapedTotal,
   lowestPrice |-> acc.allLowest,
   medianPrice |-> computeMedian(SortAsc(acc.allMedians)),
   matchStats |-> acc.matchStats]

handleFilteredStats(w, ents, usOnly, vgPlus) ==
  FilteredResponse(
    FilteredLoop(w, ents, 1, usOnly, vgPlus,
      [totalForSale |-> 0, scrapedTotal |-> 0, allLowest |-> Null,
       allMedians |-> <<>>, matchStats |-> <<>>]))

(* C36 mutant: a median is taken of two prices or more *)
PagePricingMedianOfSeveral(ok, p) ==
  [totalForSale |-> IF ok /\ p.total > 0 THEN p.total ELSE 0,
   lowestPrice |-> IF ok THEN p.lowest ELSE Null,
   medianPrice |-> IF ok /\ Len(p.prices) > 1 THEN computeMedian(SortAsc(p.prices)) ELSE Null,
   scrapedPrices |-> IF ok THEN SortAsc(p.prices) ELSE <<>>]

(* what gatherPricing keeps of the parsed first sell page *)
PagePricing(ok, p) ==
  [totalForSale |-> IF ok /\ p.total > 0 THEN p.total ELSE 0,
   lowestPrice |-> IF ok THEN p.lowest ELSE Null,
   medianPrice |-> IF ok THEN computeMedian(SortAsc(p.prices)) ELSE Null,
   scrapedPrices |-> IF ok THEN SortAsc(p.prices) ELSE <<>>]

(* gatherPricing: one fetch of the entity's first sell page, parsed without *)
(* filters; the price suggestions of the API are not modelled               *)
gatherPricing(fetches) ==
  PagePricing(fetches[1].kind = "ok", parseFilteredPage(fetches[1].html, FALSE, FALSE))


(* C23 mutant: the comparator looks at the prices only, so a null price,  *)
(* which is below every price here, sorts first                            *)
CheaperNullFirst(a, b) ==
  a.lowestPrice < b.lowestPrice

(* the comparator of matchDetails.sort: cheapest first, nulls at the end *)
Cheaper(a, b) ==
  a.lowestPrice # Null /\ (b.lowestPrice = Null \/ a.lowestPrice < b.lowestPrice)

RECURSIVE InsertMatch(_, _)
InsertMatch(sorted, d) ==
  IF Len(sorted) = 0 THEN <<d>>
  ELSE IF Cheaper(d, Head(sorted)) THEN <<d>> \o sorted
  ELSE <<Head(sorted)>> \o InsertMatch(Tail(sorted), d)

RECURSIVE SortMatches(_)
(* Array.prototype.sort is stable *)
SortMatches(ds) ==
  IF Len(ds) = 0 THEN <<>>
  ELSE InsertMatch(SortMatches(SubSeq(ds, 1, Len(ds) - 1)), ds[Len(ds)])

RECURSIVE KeepForSale(_)
(* matchDetails.filter(d => d.numForSale > 0) *)
KeepForSale(ds) ==
  IF Len(ds) = 0 THEN <<>>
  ELSE IF Head(ds).numForSale > 0 THEN <<Head(ds)>> \o KeepForSale(Tail(ds))
  ELSE KeepForSale(Tail(ds))

(* the body of the loop of buildResult for the pricing p of matches[i] *)
AddPricing(acc, i, p) ==
  [totalForSale |-> acc.totalForSale + p.totalForSale,
   globalLowest |-> IF p.lowestPrice # Null /\ (acc.globalLowest = Null \/ p.lowestPrice < acc.globalLowest)
                    THEN p.lowestPrice ELSE acc.globalLowest,
   allPrices |-> IF Len(p.scrapedPrices) > 0 THEN acc.allPrices \o p.scrapedPrices
                 ELSE acc.allPrices
                      \o (IF p.lowestPrice # Null THEN <<p.lowestPrice>> ELSE <<>>)
                      \o (IF p.medianPrice # Null THEN <<p.medianPrice>> ELSE <<>>),
   matchDetails |-> Append(acc.matchDetails,
                      [entity |-> i, numForSale |-> p.totalForSale,
                       lowestPrice |-> p.lowestPrice, medianPrice |-> p.medianPrice])]

RECURSIVE BuildLoop(_, _, _)
BuildLoop(w, i, acc) ==
  IF i > Len(w) THEN acc
  ELSE BuildLoop(w, i + 1, AddPricing(acc, i, gatherPricing(w[i])))

(* the object buildResult returns: the median is taken over the pooled      *)
(* prices, the matches are those with listings, cheapest first              *)
BuildResponse(acc) ==
  [numForSale |-> acc.totalForSale,
   lowestPrice |-> acc.globalLowest,
   medianPrice |-> computeMedian(SortAsc(acc.allPrices)),
   matches |-> SortMatches(KeepForSale(acc.matchDetails))]

(* buildResult(matches, query, false): w[i] is the sell page of matches[i] *)
buildResult(w) ==
  BuildResponse(BuildLoop(w, 1, [totalForSale |-> 0, globalLowest |-> Null,
                                 allPrices |-> <<>>, matchDetails |-> <<>>]))

----------------------------------------------------------------------------
(* The toolbar popup                                                       *)

(* filterCacheKey(): the two toggles and the selected release *)
filterCacheKey(us, vg, sel) == <<us, vg, sel>>

(* C2 mutant: the unfiltered price is shown also when nothing is for sale *)
showFilteredDataNoZeroGuard(fData, g, us, vg, sel) ==
  LET fallbackLowest == IF sel # Null THEN g.matches[sel + 1].lowestPrice ELSE g.lowestPrice
      fallbackMedian == IF sel # Null THEN g.matches[sel + 1].medianPrice ELSE g.medianPrice
  IN [kind |-> "filtered",
      numForSale |-> fData.numForSale,
      lowestPrice |-> IF fData.lowestPrice # Null THEN fData.lowestPrice ELSE fallbackLowest,
      medianPrice |-> IF fData.medianPrice # Null THEN fData.medianPrice ELSE fallbackMedian]

(* C1 mutant: the two operands of the price choice are swapped, so the     *)
(* unfiltered price wins whenever there is one                              *)
showFilteredDataUnfilteredFirst(fData, g, us, vg, sel) ==
  LET fallbackLowest == IF sel # Null THEN g.matches[sel + 1].lowestPrice ELSE g.lowestPrice
      fallbackMedian == IF sel # Null THEN g.matches[sel + 1].medianPrice ELSE g.medianPrice
  IN [kind |-> "filtered",
      numForSale |-> fData.numForSale,
      lowestPrice |-> IF fData.numForSale > 0
                      THEN (IF fallbackLowest # Null THEN fallbackLowest ELSE fData.lowestPrice)
                      ELSE Null,
      medianPrice |-> IF fData.numForSale > 0
                      THEN (IF fallbackMedian # Null THEN fallbackMedian ELSE fData.medianPrice)
                      ELSE Null]

(* showFilteredData: what it hands to renderStats; sel is 0-based as in the *)
(* source, the match list is 1-based here                                   *)
showFilteredData(fData, g, us, vg, sel) ==
  LET isSingleSelected == sel # Null
      fLowest == fData.lowestPrice
      fMedian == fData.medianPrice
      displayTotal == fData.numForSale
      fallbackLowest == IF isSingleSelected THEN g.matches[sel + 1].lowestPrice ELSE g.lowestPrice
      fallbackMedian == IF isSingleSelected THEN g.matches[sel + 1].medianPrice ELSE g.medianPrice
  IN [kind |-> "filtered",
      numForSale |-> displayTotal,
      lowestPrice |-> IF displayTotal > 0
                      THEN (IF fLowest # Null THEN fLowest ELSE fallbackLowest)
                      ELSE Null,
      medianPrice |-> IF displayTotal > 0
                      THEN (IF fMedian # Null THEN fMedian ELSE fallbackMedian)
                      ELSE Null]

(* the price column of entry i (1-based) of the match list showFilteredData *)
(* draws: the price and the count of copies; the price is Null where the    *)
(* column shows a dash                                                      *)
MatchEntry(fData, matches, sel, i) ==
  LET m == matches[i]
      isSingleSelected == sel # Null
      isSelected == sel = i - 1
      msRaw == IF ~isSingleSelected /\ i <= Len(fData.matchStats) THEN <<fData.matchStats[i]>>
               ELSE IF isSingleSelected /\ isSelected /\ Len(fData.matchStats) >= 1
               THEN <<fData.matchStats[1]>>
               ELSE <<>>
      msPrice == IF msRaw # <<>> /\ msRaw[1].lowestPrice # Null THEN msRaw[1].lowestPrice
                 ELSE m.lowestPrice
      msCount == IF msRaw # <<>> THEN msRaw[1].numForSale ELSE m.numForSale
  IN [price |-> IF msCount > 0 THEN msPrice ELSE Null, count |-> msCount]

(* the match list of showFilteredData, drawn when there is more than one    *)
(* match; the entry of index 0 carries the "Best Price" badge               *)
MatchList(fData, matches, sel) ==
  IF Len(matches) > 1 THEN [i \in 1..Len(matches) |-> MatchEntry(fData, matches, sel, i)]
  ELSE <<>>

(* the "Loading filtered results" card: no statistics are shown *)
LoadingCard ==
  [kind |-> "loading", numForSale |-> Null, lowestPrice |-> Null, medianPrice |-> Null]

(* renderStats(globalStats, { numForSale: 0, lowestPrice: null, ... }) *)
ErrorCard ==
  [kind |-> "error", numForSale |-> 0, lowestPrice |-> Null, medianPrice |-> Null]

(* renderStats(globalStats, g) in showResults *)
GlobalCard(g) ==
  [kind |-> "global", numForSale |-> g.numForSale, lowestPrice |-> g.lowestPrice,
   medianPrice |-> g.medianPrice]

(* queryMatches: the selected release alone, or every match *)
QueryEntities(matches, sel) ==
  IF sel # Null /\ sel < Len(matches) THEN <<matches[sel + 1].entity>>
  ELSE [i \in 1..Len(matches) |-> matches[i].entity]

MaxSent == 2

(* applyFilters() under the toggles and selection just set *)
applyFilters(us, vg, sel) ==
  LET key == filterCacheKey(us, vg, sel) IN
  IF key \in DOMAIN cachedData.filtered
  THEN /\ display' = showFilteredData(cachedData.filtered[key], cachedData.global, us, vg, sel)
       /\ UNCHANGED <<cachedData, inflight, sent>>
  ELSE /\ sent < MaxSent
       /\ display' = LoadingCard
       /\ inflight' = inflight \cup
            {[id |-> sent + 1, key |-> key, usOnly |-> us, vgPlus |-> vg,
              matches |-> QueryEntities(cachedData.global.matches, sel)]}
       /\ sent' = sent + 1
       /\ UNCHANGED cachedData

(* the callback of chrome.storage.sync.get(['usOnly', 'vgPlus']) in showResults *)
StorageLoaded(us, vg) ==
  /\ pc = "showResults"
  /\ pc' = "ready"
  /\ usToggle' = us
  /\ vgToggle' = vg
  /\ applyFilters(us, vg, selectedMatchIndex)
  /\ UNCHANGED <<html, pg, world, selectedMatchIndex>>
  /\ UNCHANGED <<clockVars, cacheVars, rateVars, urlVars, trackVars, helperVars, initVars, contentVars>>

(* usToggle 'change' listener *)
ToggleUs ==
  /\ pc \in {"showResults", "ready"}
  /\ usToggle' = ~usToggle
  /\ applyFilters(~usToggle, vgToggle, selectedMatchIndex)
  /\ UNCHANGED <<html, pg, pc, world, vgToggle, selectedMatchIndex>>
  /\ UNCHANGED <<clockVars, cacheVars, rateVars, urlVars, trackVars, helperVars, initVars, contentVars>>

(* vgToggle 'change' listener *)
ToggleVg ==
  /\ pc \in {"showResults", "ready"}
  /\ vgToggle' = ~vgToggle
  /\ applyFilters(usToggle, ~vgToggle, selectedMatchIndex)
  /\ UNCHANGED <<html, pg, pc, world, usToggle, selectedMatchIndex>>
  /\ UNCHANGED <<clockVars, cacheVars, rateVars, urlVars, trackVars, helperVars, initVars, contentVars>>

(* selectMatch(idx), bound to the entries of the match list, which is drawn *)
(* only when there is more than one match                                   *)
SelectMatch(idx) ==
  /\ pc \in {"showResults", "ready"}
  /\ Len(cachedData.global.matches) > 1
  /\ idx >= 0 /\ idx < Len(cachedData.global.matches)
  /\ selectedMatchIndex' = IF selectedMatchIndex = idx THEN Null ELSE idx
  /\ applyFilters(usToggle, vgToggle, selectedMatchIndex')
  /\ UNCHANGED <<html, pg, pc, world, usToggle, vgToggle>>
  /\ UNCHANGED <<clockVars, cacheVars, rateVars, urlVars, trackVars, helperVars, initVars, contentVars>>

(* the response callback of discogs-filtered-stats with res.data: the       *)
(* service worker has run handleFilteredStats over the requested matches    *)
FilteredStatsData(req) ==
  /\ req \in inflight
  /\ inflight' = inflight \ {req}
  /\ LET data == handleFilteredStats(world, req.matches, req.usOnly, req.vgPlus) IN
     /\ cachedData' = [cachedData EXCEPT !.filtered = (req.key :> data) @@ @]
     /\ display' = IF filterCacheKey(usToggle, vgToggle, selectedMatchIndex) = req.key
                   THEN showFilteredData(data, cachedData.global, usToggle, vgToggle,
                                         selectedMatchIndex)
                   ELSE display
  /\ UNCHANGED <<html, pg, pc, world, usToggle, vgToggle, selectedMatchIndex, sent>>
  /\ UNCHANGED <<clockVars, cacheVars, rateVars, urlVars, trackVars, helperVars, initVars, contentVars>>

(* the response callback with chrome.runtime.lastError or res.error *)
FilteredStatsError(req) ==
  /\ req \in inflight
  /\ inflight' = inflight \ {req}
  /\ display' = ErrorCard
  /\ UNCHANGED <<html, pg, pc, world, cachedData, usToggle, vgToggle, selectedMatchIndex, sent>>
  /\ UNCHANGED <<clockVars, cacheVars, rateVars, urlVars, trackVars, helperVars, initVars, contentVars>>

----------------------------------------------------------------------------
(* The marketplace: what the sell pages of an entity answer                *)

Ok(page) == [kind |-> "ok", html |-> page]
NotOk == [kind |-> "notok", html |-> <<>>]
Throws == [kind |-> "throw", html |-> <<>>]

ListingUS5 == <<Marker, "Very Good Plus (VG+)", "$5.00", "Ships From:", "United States">>
ListingDE3 == <<Marker, "Good (G)", "$3.00", "Ships From:", "Germany">>
ListingUS3 == <<Marker, "Mint (M)", "<span>", "$3.00", "+$6.00", "Ships From:", "United States">>
ListingUnpriced == <<Marker, "Near Mint (NM or M-)", "+$6.00", "Ships From:", "United States">>
SidebarBlock == <<Marker, "Very Good Plus (VG+)", "<span>">>

RECURSIVE Repeat(_, _)
Repeat(block, n) == IF n = 0 THEN <<>> ELSE block \o Repeat(block, n - 1)

(* the fetches of pages 1..MAX_SCRAPE_PAGES of one entity *)
EntitySet ==
  { <<Ok(SidebarBlock \o ListingDE3 \o ListingUS5), NotOk>>,
    <<Ok(ListingDE3 \o ListingUnpriced), NotOk>>,
    <<Ok(ListingDE3), NotOk>>,
    <<Ok(<<"No items for sale", "$3.00">>), NotOk>>,
    <<Throws, NotOk>> }

(* an entity whose listings fill two pages, one whose page count is far     *)
(* above what the page shows, and one whose sell page answers with an error *)
PagedEntity ==
  <<Ok(<<"1 - 25 of 60">> \o Repeat(ListingUS5, 24) \o ListingDE3),
    Ok(<<"1 - 25 of 60">> \o ListingDE3 \o ListingUS3)>>
ShortPagedEntity == <<Ok(<<"1 - 25 of 60">> \o ListingDE3 \o ListingUS5), Throws>>
RefusedEntity == <<NotOk, NotOk>>

MaxEntities == 2

Worlds ==
  UNION {[1..k -> EntitySet] : k \in 1..MaxEntities}
    \cup {<<PagedEntity>>, <<ShortPagedEntity>>, <<RefusedEntity>>}

----------------------------------------------------------------------------
(* The popup after showResults(data) has drawn the result of a full search  *)
(* over the entities of the world.                                          *)

Init ==
  /\ world \in Worlds
  /\ cachedData = [global |-> buildResult(world), filtered |-> <<>>]
  /\ usToggle = FALSE
  /\ vgToggle = FALSE
  /\ selectedMatchIndex = Null
  /\ inflight = {}
  /\ sent = 0
  /\ display = GlobalCard(cachedData.global)
  /\ html = <<>>
  /\ pg = <<>>
  /\ pc = "showResults"
  /\ ClockIdle /\ CacheIdle /\ RateIdle /\ UrlIdle /\ TrackIdle /\ HelperIdle /\ InitIdle /\ ContentIdle

Next ==
  \/ \E us, vg \in BOOLEAN : StorageLoaded(us, vg)
  \/ ToggleUs
  \/ ToggleVg
  \/ \E idx \in 0..(Len(world) - 1) : SelectMatch(idx)
  \/ \E req \in inflight : FilteredStatsData(req)
  \/ \E req \in inflight : FilteredStatsError(req)

Spec == Init /\ [][Next]_vars

----------------------------------------------------------------------------
(* Inputs of the parser specification                                      *)

MaxBlockLen == 4
MaxBlocks == 2

SeqsUpTo(S, n) == UNION {[1..k -> S] : k \in 0..n}

RECURSIVE Flatten(_)
Flatten(ss) == IF Len(ss) = 0 THEN <<>> ELSE Head(ss) \o Flatten(Tail(ss))

(* one block of free text after a marker *)
BlockAlphabet ==
  {"Very Good Plus (VG+)", "Very Good (VG)", "Germany", "<span>", "Ships From:",
   "United States", "$0.00", "$3.00", "$5.00", "+$6.00", "about $4.00", "shipping",
   WideSpace}

SingleBlockPages == {<<Marker>> \o b : b \in SeqsUpTo(BlockAlphabet, MaxBlockLen)}

(* text before the first marker: headers, sidebar prices, no-results notes *)
PreSet ==
  {<<>>, <<"1 - 25 of 0">>, <<"1 - 25 of ,">>, <<"1 - 25 of 1">>, <<"1 - 25 of 3">>,
   <<"1 - 25 of 60">>, <<"No items for sale">>, <<"$3.00">>,
   <<"No items for sale", "$3.00">>, <<"Very Good Plus (VG+)", "$3.00", "Ships From:">>}

(* listing blocks and phantom blocks, each following a marker *)
BlockSet ==
  {<<Marker, "Very Good Plus (VG+)", "Good (G)", "$5.00", "+$6.00", "shipping", "$5.00",
     "$3.00", "Ships From:", "<span>", "United States">>,
   <<Marker, "<span>", "Good (G)", "Near Mint (NM or M-)", "$3.00", "Ships From:", "Germany">>,
   <<Marker, "Near Mint (NM or M-)", "about $4.00", "Ships From :", "United States">>,
   <<Marker, "Very Good Plus (VG+)", "<span>">>,
   <<Marker, "Very Good Plus (VG+)", "$3.00">>,
   <<Marker, "Germany", "$3.00", "Ships From:", "United States">>,
   <<Marker, "No items for sale", "Mint (M)", "$5.00", "Ships From:", "United States">>,
   <<Marker, "1 - 25 of 1">>,
   <<Marker, "Very Good Plus (VG+)", "€4.00", "about $4.00", "Ships From:", "Germany">>,
   <<Marker, "Very Good Plus (VG+)", "€4.00", "+€1.00", "Ships From:", "Germany">>,
   <<Marker, "Very Good Plus (VG+)", "CA$5.00", "Ships From:", "Germany">>}

StructuredPages ==
  {pre \o Flatten(bs) : pre \in PreSet, bs \in SeqsUpTo(BlockSet, MaxBlocks)}

ParseInputs == SingleBlockPages \cup StructuredPages

Flags == BOOLEAN \X BOOLEAN

----------------------------------------------------------------------------
(* The parser specification: a page is drawn, parseFilteredPage is applied  *)
(* to it under each combination of the two filter flags.                    *)

PopupIdle ==
  /\ world = <<>>
  /\ cachedData = <<>>
  /\ usToggle = FALSE
  /\ vgToggle = FALSE
  /\ selectedMatchIndex = Null
  /\ inflight = {}
  /\ sent = 0
  /\ display = <<>>

ParseInit ==
  /\ html \in ParseInputs
  /\ pg = <<>>
  /\ pc = "start"
  /\ PopupIdle
  /\ ClockIdle /\ CacheIdle /\ RateIdle /\ UrlIdle /\ TrackIdle /\ HelperIdle /\ InitIdle /\ ContentIdle

ParsePage ==
  /\ pc = "start"
  /\ pg' = [f \in Flags |-> parseFilteredPage(html, f[1], f[2])]
  /\ pc' = "done"
  /\ UNCHANGED <<html, world, cachedData, usToggle, vgToggle, selectedMatchIndex,
                 inflight, sent, display>>
  /\ UNCHANGED <<clockVars, cacheVars, rateVars, urlVars, trackVars, helperVars, initVars, contentVars>>

ParseNext == ParsePage

ParseSpec == ParseInit /\ [][ParseNext]_vars

----------------------------------------------------------------------------
(* Properties of parseFilteredPage, stated without the parser's operators.  *)

FF == <<FALSE, FALSE>>
VgOnly == <<FALSE, TRUE>>

(* the positions of the block that follows the marker at position i *)
BlockRange(page, i) ==
  {j \in (i + 1)..Len(page) : \A k \in (i + 1)..j : page[k] # Marker}

(* the marker at i starts a listing: its block holds an amount, a grade     *)
(* label and a "Ships From" marker                                          *)
IsListing(page, i) ==
  /\ page[i] = Marker
  /\ \E j \in BlockRange(page, i) : page[j] \in AmountTok
  /\ \E j \in BlockRange(page, i) : page[j] \in GradeLabels
  /\ \E j \in BlockRange(page, i) : page[j] \in ShipsFromTok

Listings(page) == {i \in 1..Len(page) : IsListing(page, i)}

Markers(page) == {i \in 1..Len(page) : page[i] = Marker}

PaginationFound(page) == \E i \in 1..Len(page) : page[i] \in PaginationTok

NoResultsFound(page) == \E i \in 1..Len(page) : page[i] \in NoResultsTok

SeqElems(s) == {s[i] : i \in 1..Len(s)}

(* C3: on a page with a pagination pattern the returned on-page count and   *)
(* matched count never exceed the returned total, also when the total is 0. *)
C3_CountsWithinTotal ==
  pc = "done" =>
    \A f \in Flags :
      PaginationFound(html) =>
        /\ pg[f].listingsOnPage <= pg[f].total
        /\ pg[f].matched <= pg[f].total

(* the page cut down to its listing blocks: the text before the first       *)
(* marker and every rejected block are taken out                            *)
KeepListings(page) ==
  LET Idx == {j \in 1..Len(page) :
                \E i \in Listings(page) : j = i \/ j \in BlockRange(page, i)}
      Nth(k) == CHOOSE j \in Idx : Cardinality({m \in Idx : m < j}) = k - 1
  IN [k \in 1..Cardinality(Idx) |-> page[Nth(k)]]

(* C4 as stated: the text before the first marker and the rejected blocks   *)
(* change no field of the result but the total: the counts and the prices   *)
(* are those of the page cut down to its listing blocks.                    *)
C4_RejectedTextChangesNothing ==
  pc = "done" =>
    \A f \in Flags :
      LET q == parseFilteredPage(KeepListings(html), f[1], f[2]) IN
      /\ pg[f].listingsOnPage = q.listingsOnPage
      /\ pg[f].matched = q.matched
      /\ pg[f].prices = q.prices
      /\ pg[f].lowest = q.lowest

(* C4 amended: only blocks that hold an amount, a grade label and a "Ships  *)
(* From" marker contribute: the on-page count is the number of such blocks, *)
(* cut to the pagination total when the page has a positive one; the       *)
(* matched count and the number of prices do not exceed the number of such  *)
(* blocks, and every price is an amount of such a block; text before the    *)
(* first marker and rejected blocks add no listing and no price.            *)
C4_OnlyListingsContribute ==
  pc = "done" =>
    \A f \in Flags :
      LET n == Cardinality(Listings(html))
          r == pg[f]
          capped == PaginationFound(html) /\ r.total > 0 /\ n > r.total
      IN /\ r.listingsOnPage = IF capped THEN r.total ELSE n
         /\ r.matched <= n
         /\ Len(r.prices) <= n
         /\ (f = FF /\ ~capped => r.matched = n)
         /\ \A v \in SeqElems(r.prices) :
              \E i \in Listings(html) : \E j \in BlockRange(html, i) :
                html[j] \in PlainAmountTok /\ ParseFloat(html[j]) = v
         /\ (n = 0 => r.prices = <<>> /\ r.lowest = Null)

(* C4 witness: a page whose first marker starts a rejected block that holds *)
(* an amount, with an amount before it and a real listing after it          *)
C4_Witness ==
  /\ pc = "done"
  /\ \E i \in Markers(html) \ Listings(html) :
       /\ \E j \in BlockRange(html, i) : html[j] \in AmountTok
       /\ \E j \in 1..(i - 1) : html[j] \in AmountTok
  /\ Listings(html) # {}
  /\ pg[FF].listingsOnPage = Cardinality(Listings(html))
  /\ pg[FF].prices # <<>>

(* C5 as stated: without pagination, a no-results phrase gives total 0 and  *)
(* no price whatever else the page contains.                                *)
C5_NoResultsAlwaysZero ==
  pc = "done" =>
    \A f \in Flags :
      (~PaginationFound(html) /\ NoResultsFound(html)) =>
        pg[f].total = 0 /\ pg[f].prices = <<>> /\ pg[f].lowest = Null

(* C5 amended: without pagination, a page with a no-results phrase gets as  *)
(* total the number of its validated listing blocks; with no such block the *)
(* total is 0 and there is no price, whatever stray markers and amounts.    *)
C5_NoResultsZeroUnlessListings ==
  pc = "done" =>
    \A f \in Flags :
      (~PaginationFound(html) /\ NoResultsFound(html)) =>
        /\ pg[f].total = Cardinality(Listings(html))
        /\ (Listings(html) = {} =>
              pg[f].total = 0 /\ pg[f].prices = <<>> /\ pg[f].lowest = Null)

(* C5 witness: a no-results page with a phantom marker and a stray amount *)
C5_Witness ==
  /\ pc = "done"
  /\ ~PaginationFound(html) /\ NoResultsFound(html)
  /\ Markers(html) # {} /\ Listings(html) = {}
  /\ \E j \in 1..Len(html) : html[j] \in AmountTok
  /\ pg[FF].total = 0

(* C6: on a page without pagination the returned total equals the returned *)
(* on-page count of validated listings.                                     *)
C6_TotalIsOnPageCount ==
  pc = "done" =>
    \A f \in Flags :
      ~PaginationFound(html) => pg[f].total = pg[f].listingsOnPage

(* the amounts of the only block of a one-marker page that are not          *)
(* "+"-prefixed, not "about" annotations and not right after "shipping"     *)
Eligible(page) ==
  {j \in 1..Len(page) :
     /\ \E i \in Markers(page) : j \in BlockRange(page, i)
     /\ page[j] \in AmountTok
     /\ page[j] \notin PlusAmountTok
     /\ page[j] \notin AboutAmountTok
     /\ (page[j - 1] # "shipping" \/ page[j] \in LetterPrefixedTok)}

PositiveEligible(page) == {j \in Eligible(page) : ParseFloat(page[j]) > 0}

Least(S) == CHOOSE x \in S : \A y \in S : x <= y

(* C7 as stated: a surviving block yields the first amount that is not      *)
(* "+"-prefixed, not an "about" annotation and not right after "shipping",  *)
(* and no price when it has no such amount.                                 *)
C7_FirstEligibleAmount ==
  (pc = "done" /\ Cardinality(Markers(html)) = 1) =>
    \A f \in Flags :
      pg[f].matched = 1 =>
        pg[f].prices = IF Eligible(html) = {} THEN <<>>
                       ELSE <<ParseFloat(html[Least(Eligible(html))])>>

(* C7 amended: a surviving block yields the first amount that is not        *)
(* "+"-prefixed, not an "about" annotation, not right after "shipping" and  *)
(* whose value is a number > 0; at most one price per block, none when the  *)
(* block has no such amount, none from a block that does not survive.       *)
C7_FirstPositiveEligibleAmount ==
  (pc = "done" /\ Cardinality(Markers(html)) = 1) =>
    \A f \in Flags :
      /\ pg[f].matched = 1 =>
           pg[f].prices = IF PositiveEligible(html) = {} THEN <<>>
                          ELSE <<ParseFloat(html[Least(PositiveEligible(html))])>>
      /\ pg[f].matched = 0 => pg[f].prices = <<>>

(* C7 witness: a surviving block with a "+" amount, an amount after         *)
(* "shipping" and two different item amounts, the dearer one first          *)
C7_Witness ==
  /\ pc = "done" /\ Cardinality(Markers(html)) = 1
  /\ pg[FF].matched = 1
  /\ \E j \in 1..Len(html) : html[j] \in PlusAmountTok
  /\ \E j \in 2..Len(html) : html[j] \in PlainAmountTok /\ html[j - 1] = "shipping"
  /\ \E j, k \in PositiveEligible(html) : j < k /\ ParseFloat(html[j]) > ParseFloat(html[k])
  /\ pg[FF].prices = <<20>>

(* the grade directly after the split point, tags allowed in between; ""    *)
(* when what follows is no recognized grade label                           *)
MediaGrade(page) ==
  LET i == Least(Markers(page))
      after == {j \in BlockRange(page, i) : page[j] \notin TagTok \cup {WideSpace}}
  IN IF after = {} \/ page[Least(after)] \notin GradeLabels THEN ""
     ELSE page[Least(after)]

(* C8: with the VG+ filter on, a validated block is matched iff the grade   *)
(* directly after the split point has rank <= 3; a grade later in the block *)
(* (the sleeve condition) never decides.                                    *)
C8_MediaGradeDecides ==
  (pc = "done" /\ Cardinality(Markers(html)) = 1 /\ ~PaginationFound(html)) =>
    (pg[VgOnly].listingsOnPage = 1 =>
       (pg[VgOnly].matched = 1 <=>
          (MediaGrade(html) # "" /\ GRADE_RANK[MediaGrade(html)] <= 3)))

(* C9: the total and the on-page count do not depend on the filter flags,   *)
(* and a filter never raises the matched count.                             *)
C9_FiltersOnlyNarrow ==
  pc = "done" =>
    \A f \in Flags :
      /\ pg[f].total = pg[FF].total
      /\ pg[f].listingsOnPage = pg[FF].listingsOnPage
      /\ pg[f].matched <= pg[FF].matched

(* C9 witness: a page with two listings where each filter excludes the     *)
(* same one                                                                 *)
C9_Witness ==
  /\ pc = "done"
  /\ pg[FF].listingsOnPage = 2 /\ pg[FF].matched = 2
  /\ pg[VgOnly].matched = 1
  /\ pg[<<TRUE, FALSE>>].matched = 1
  /\ pg[<<TRUE, TRUE>>].matched = 1

----------------------------------------------------------------------------
(* Claims about the popup and the aggregation, checked under Spec          *)

CurrentKey == filterCacheKey(usToggle, vgToggle, selectedMatchIndex)

(* the filtered-stats response the popup is showing *)
Shown == cachedData.filtered[CurrentKey]

(* the unfiltered price of the displayed scope: the aggregate's, or the     *)
(* selected release's                                                       *)
UnfilteredLowest ==
  IF selectedMatchIndex # Null
  THEN cachedData.global.matches[selectedMatchIndex + 1].lowestPrice
  ELSE cachedData.global.lowestPrice

UnfilteredMedian ==
  IF selectedMatchIndex # Null
  THEN cachedData.global.matches[selectedMatchIndex + 1].medianPrice
  ELSE cachedData.global.medianPrice

VgCardWithListings ==
  /\ display.kind = "filtered"
  /\ vgToggle
  /\ display.numForSale > 0

C2_ZeroCountShowsNoPrice ==
  /\ (display.kind \in {"filtered", "error"} /\ display.numForSale = 0) =>
       (display.lowestPrice = Null /\ display.medianPrice = Null)
  /\ \A key \in DOMAIN cachedData.filtered :
       \A i \in 1..Len(cachedData.filtered[key].matchStats) :
         LET stats == cachedData.filtered[key].matchStats[i] IN
         stats.numForSale = 0 => (stats.lowestPrice = Null /\ stats.medianPrice = Null)

(* a filtered card with a count of zero while the unfiltered scope has      *)
(* prices                                                                   *)
C2_Witness ==
  /\ display.kind = "filtered"
  /\ display.numForSale = 0
  /\ UnfilteredLowest # Null
  /\ UnfilteredMedian # Null
  /\ \E i \in 1..Len(Shown.matchStats) : Shown.matchStats[i].numForSale = 0

(* the per-listing prices the first sell page of an entity yields *)
ListingPrices(fetches, usOnly, vgPlus) ==
  IF fetches[1].kind = "ok" THEN parseFilteredPage(fetches[1].html, usOnly, vgPlus).prices
  ELSE <<>>

RECURSIVE Pooled(_, _, _, _, _)
(* the per-listing prices of the entities ents[i..] of w, pooled *)
Pooled(w, ents, i, usOnly, vgPlus) ==
  IF i > Len(ents) THEN <<>>
  ELSE ListingPrices(w[ents[i]], usOnly, vgPlus) \o Pooled(w, ents, i + 1, usOnly, vgPlus)

(* the entities a request for the key asks about *)
ScopeOf(key) == QueryEntities(cachedData.global.matches, key[3])

(* every entity of the world has all its listings on its first page *)
SinglePaged == \A i \in 1..Len(world) : world[i] \in EntitySet

(* C10, for buildResult: the unfiltered aggregate's median is the median of *)
(* the pooled per-listing prices of all entities.                           *)
C10_GlobalMedianPooled ==
  SinglePaged =>
    cachedData.global.medianPrice =
      computeMedian(SortAsc(Pooled(world, [i \in 1..Len(world) |-> i], 1, FALSE, FALSE)))

(* C10 as stated: the median of every aggregate, unfiltered or filtered, is *)
(* the median of the pooled per-listing prices of the entities it covers.   *)
C10_AggregateMedianPooled ==
  SinglePaged =>
    /\ C10_GlobalMedianPooled
    /\ \A key \in DOMAIN cachedData.filtered :
         cachedData.filtered[key].medianPrice =
           computeMedian(SortAsc(Pooled(world, ScopeOf(key), 1, key[1], key[2])))

----------------------------------------------------------------------------
(* Claims about amounts in other currencies, checked under ParseSpec       *)

(* the rate table of the claim, in thousandths: units of the currency per   *)
(* US dollar                                                                *)
Rates == ("EUR" :> 800) @@ ("CAD" :> 1250)

ForeignTok == {"€4.00", "CA$5.00"}

CurrencyOf(tok) == IF tok = "€4.00" THEN "EUR" ELSE "CAD"

(* the amount of a foreign lexeme in its own currency, in quarter units *)
NativeAmount(tok) == IF tok = "€4.00" THEN 16 ELSE 20

(* amount / rate: both lexemes convert without a remainder *)
ConvertToUSD(tok) == (NativeAmount(tok) * 1000) \div Rates[CurrencyOf(tok)]

(* a one-block page whose block has a grade, a "Ships From" marker and, as  *)
(* its only item amount, one amount in another currency                     *)
ForeignOnlyListing(page) ==
  /\ Cardinality(Markers(page)) = 1
  /\ ~PaginationFound(page) /\ ~NoResultsFound(page)
  /\ \E j \in 1..Len(page) : page[j] \in GradeLabels
  /\ \E j \in 1..Len(page) : page[j] \in ShipsFromTok
  /\ Cardinality({j \in 1..Len(page) : page[j] \in ForeignTok}) = 1
  /\ \A j \in 1..Len(page) : page[j] \notin PlainAmountTok \ ForeignTok

(* C11: a listing whose only item amount is in another currency is matched  *)
(* and priced at amount / rate, never at its "about" annotation.            *)
C11_ForeignAmountConverted ==
  (pc = "done" /\ ForeignOnlyListing(html)) =>
    LET j == CHOOSE k \in 1..Len(html) : html[k] \in ForeignTok IN
    /\ pg[FF].matched = 1
    /\ pg[FF].prices = <<ConvertToUSD(html[j])>>

----------------------------------------------------------------------------
(* The Discogs API and the discovery search as one full search sees them    *)

(* how an endpoint answers the fetches of one discogsGet call: always 200,  *)
(* always 404, 429 on every attempt, or 429 once and 200 on the retry       *)
Behaviours == {"200", "404", "429", "429once"}

StatusAt(beh, n) ==
  IF beh = "200" THEN 200
  ELSE IF beh = "404" THEN 404
  ELSE IF beh = "429" THEN 429
  ELSE IF n = 1 THEN 429 ELSE 200

RetryLimit == 3

RateLimitError == "Discogs rate limit exceeded after 3 retries."

NoResultsError == "No Discogs results found for this title."

RECURSIVE discogsGet(_, _)
(* discogsGet(path, params, _retries) with a token set: what it returns or  *)
(* throws, and the number of fetches it has issued                          *)
discogsGet(beh, retries) ==
  LET status == StatusAt(beh, retries + 1)
      attempt == retries + 1
  IN IF status = 429
     THEN IF attempt > RetryLimit
          THEN [kind |-> "throw", error |-> RateLimitError, fetches |-> retries + 1]
          ELSE discogsGet(beh, attempt)
     ELSE IF status = 401
     THEN [kind |-> "throw", error |-> "Invalid Discogs token.", fetches |-> retries + 1]
     ELSE IF status = 403 \/ status = 404
     THEN [kind |-> "null", error |-> "", fetches |-> retries + 1]
     ELSE [kind |-> "json", error |-> "", fetches |-> retries + 1]

(* The catalogue: master 1 with the versions 3, 2 (vinyl) and 4 (a CD),     *)
(* and release 2, which belongs to master 1 or to no master.                *)
MasterId == 1
ReleaseId == 2
VersionId == 3
CdVersionId == 4

MasterPath(id) == <<"masters", id>>
ReleasePath(id) == <<"releases", id>>
VersionsPath(id) == <<"versions", id>>
SuggestionsPath(id) == <<"price_suggestions", id>>

Paths ==
  {MasterPath(MasterId), ReleasePath(ReleaseId), VersionsPath(MasterId),
   SuggestionsPath(ReleaseId), SuggestionsPath(VersionId)}

(* versionsData.versions of the master *)
VersionList ==
  <<[id |-> VersionId, vinyl |-> TRUE], [id |-> ReleaseId, vinyl |-> TRUE],
    [id |-> CdVersionId, vinyl |-> FALSE]>>

(* num_for_sale and lowest_price of the master and release documents *)
DocForSale == 7
DocLowest == 12

(* the price suggestions of a release: the VG+ and the NM value *)
SuggestedVgPlus(id) == IF id = ReleaseId THEN 20 ELSE 16
SuggestedNearMint(id) == IF id = ReleaseId THEN 24 ELSE 28

(* the sell page gatherPricing fetches for a match *)
SellPage(m) ==
  IF m.releaseId = ReleaseId THEN <<Ok(ListingDE3 \o ListingUS5)>>
  ELSE IF m.releaseId = VersionId THEN <<Ok(ListingUS3)>>
  ELSE IF m.releaseId = Null THEN <<Ok(ListingUS5 \o ListingUS3)>>
  ELSE <<NotOk>>

MasterCand == [type |-> "master", id |-> MasterId]
ReleaseCand == [type |-> "release", id |-> ReleaseId]

(* expandMasterVersions(master, masterId, seenReleases): the loop over the  *)
(* first versions, then the master-level match when nothing was found       *)
RECURSIVE VersionLoop(_, _, _, _)
VersionLoop(vList, i, masterId, acc) ==
  IF i > Len(vList) \/ i > 10 THEN acc
  ELSE LET v == vList[i] IN
       IF ~v.vinyl \/ v.id \in acc.seenReleases
       THEN VersionLoop(vList, i + 1, masterId, acc)
       ELSE VersionLoop(vList, i + 1, masterId,
              [results |-> Append(acc.results,
                             [masterId |-> masterId, releaseId |-> v.id,
                              numForSale |-> 0, lowestPrice |-> Null]),
               seenReleases |-> acc.seenReleases \cup {v.id}])

expandMasterVersions(net, masterId, st) ==
  LET got == discogsGet(net.api[VersionsPath(masterId)], 0)
      vList == IF got.kind = "json" THEN VersionList ELSE <<>>
      found0 == [results |-> <<>>, seenReleases |-> st.seenReleases]
      looped == IF got.kind = "throw" THEN found0
                ELSE VersionLoop(vList, 1, masterId, found0)
      out == IF Len(looped.results) = 0
             THEN <<[masterId |-> masterId, releaseId |-> Null,
                     numForSale |-> DocForSale, lowestPrice |-> DocLowest]>>
             ELSE looped.results
  IN [st EXCEPT !.matches = @ \o out,
                !.seenReleases = looped.seenReleases,
                !.calls = Append(@, [path |-> VersionsPath(masterId), got |-> got])]

(* the branch of fetchDiscogsDetails for a master candidate *)
MasterStep(net, gr, trackName0, st) ==
  IF gr.id \in st.seenMasters THEN st
  ELSE LET got == discogsGet(net.api[MasterPath(gr.id)], 0)
           st1 == [st EXCEPT !.seenMasters = @ \cup {gr.id},
                             !.calls = Append(@, [path |-> MasterPath(gr.id), got |-> got])]
           trackOk == trackName0 = "" \/ net.masterHasTrack
       IN IF got.kind = "throw" THEN [st1 EXCEPT !.thrown = got.error]
          ELSE IF got.kind = "null" THEN st1
          ELSE IF ~trackOk THEN st1
          ELSE expandMasterVersions(net, gr.id, st1)

(* the release itself, once its master has not taken its place *)
ReleaseItself(net, gr, trackName0, st) ==
  LET rTrackOk == trackName0 = "" \/ net.releaseHasTrack IN
  IF ~net.releaseIsVinyl THEN st
  ELSE IF ~rTrackOk THEN st
  ELSE [st EXCEPT !.matches = Append(@, [masterId |-> Null, releaseId |-> gr.id,
                                         numForSale |-> DocForSale,
                                         lowestPrice |-> DocLowest])]

(* the branch of fetchDiscogsDetails for a release candidate *)
ReleaseStep(net, gr, trackName0, st) ==
  LET got == discogsGet(net.api[ReleasePath(gr.id)], 0)
      st1 == [st EXCEPT !.calls = Append(@, [path |-> ReleasePath(gr.id), got |-> got])]
      mid == net.releaseMaster
  IN IF got.kind = "throw" THEN [st1 EXCEPT !.thrown = got.error]
     ELSE IF got.kind = "null" THEN st1
     ELSE IF mid # Null /\ mid \notin st1.seenMasters
     THEN LET mgot == discogsGet(net.api[MasterPath(mid)], 0)
              st2 == [st1 EXCEPT !.seenMasters = @ \cup {mid},
                                 !.calls = Append(@, [path |-> MasterPath(mid), got |-> mgot])]
              mTrackOk == trackName0 = "" \/ net.masterHasTrack
          IN IF mgot.kind = "throw" THEN [st2 EXCEPT !.thrown = mgot.error]
             ELSE IF mgot.kind = "json" /\ mTrackOk
             THEN expandMasterVersions(net, mid, st2)
             ELSE ReleaseItself(net, gr, trackName0, st2)
     ELSE IF mid # Null THEN st1
     ELSE ReleaseItself(net, gr, trackName0, st1)

RECURSIVE DetailsLoop(_, _, _, _, _)
DetailsLoop(net, googleResults, trackName0, i, st) ==
  IF i > Len(googleResults) \/ i > 5 \/ st.thrown # "" THEN st
  ELSE LET gr == googleResults[i]
           next == IF gr.type = "master" THEN MasterStep(net, gr, trackName0, st)
                   ELSE ReleaseStep(net, gr, trackName0, st)
       IN DetailsLoop(net, googleResults, trackName0, i + 1, next)

(* fetchDiscogsDetails(googleResults, trackName): the matches, the calls    *)
(* made and the error thrown, if any; calls0 are the calls made before      *)
fetchDiscogsDetails(net, googleResults, trackName0, calls0) ==
  DetailsLoop(net, googleResults, trackName0, 1,
              [matches |-> <<>>, seenMasters |-> {}, seenReleases |-> {},
               calls |-> calls0, thrown |-> ""])

PassOf(googleResults, trackName0, st) ==
  [over |-> googleResults, trackName |-> trackName0, matches |-> Len(st.matches),
   thrown |-> st.thrown]

(* C18 mutant: the fallback pass runs over every candidate *)
FallbackCandidatesAll(googleResults) == googleResults

(* googleResults.slice(0, 1) *)
FallbackCandidates(googleResults) == SubSeq(googleResults, 1, 1)

(* findMatchingReleases(query), trackName0 being the track parsed from the  *)
(* query: the matches, the two passes and the calls                         *)
findMatchingReleases(net, trackName0) ==
  IF net.google.kind = "throw"
  THEN [matches |-> <<>>, passes |-> <<>>, calls |-> <<>>, thrown |-> "Failed to fetch"]
  ELSE LET googleResults == IF net.google.kind = "ok" THEN net.google.cands ELSE <<>> IN
       IF Len(googleResults) = 0
       THEN [matches |-> <<>>, passes |-> <<>>, calls |-> <<>>, thrown |-> ""]
       ELSE LET first == fetchDiscogsDetails(net, googleResults, trackName0, <<>>)
                pass1 == PassOf(googleResults, trackName0, first)
            IN IF first.thrown # "" \/ Len(first.matches) > 0
               THEN [matches |-> first.matches, passes |-> <<pass1>>,
                     calls |-> first.calls, thrown |-> first.thrown]
               ELSE LET cands == FallbackCandidates(googleResults)
                        second == fetchDiscogsDetails(net, cands, "", first.calls)
                    IN [matches |-> second.matches,
                        passes |-> <<pass1, PassOf(cands, "", second)>>,
                        calls |-> second.calls, thrown |-> second.thrown]

(* getPriceSuggestions(releaseId) as gatherPricing calls it: only for a     *)
(* match with a release id and with listings on its sell page               *)
AsksSuggestions(m) ==
  m.releaseId # Null /\ gatherPricing(SellPage(m)).totalForSale > 0

RECURSIVE SuggestionLoop(_, _, _, _)
SuggestionLoop(net, matches, i, acc) ==
  IF i > Len(matches) THEN acc
  ELSE LET m == matches[i] IN
       IF ~AsksSuggestions(m) THEN SuggestionLoop(net, matches, i + 1, acc)
       ELSE LET got == discogsGet(net.api[SuggestionsPath(m.releaseId)], 0)
                vg == IF got.kind = "json" THEN SuggestedVgPlus(m.releaseId) ELSE Null
                nm == IF got.kind = "json" THEN SuggestedNearMint(m.releaseId) ELSE Null
            IN SuggestionLoop(net, matches, i + 1,
                 [bestVgPlus |-> IF vg # Null /\ (acc.bestVgPlus = Null \/ vg < acc.bestVgPlus)
                                 THEN vg ELSE acc.bestVgPlus,
                  bestNearMint |-> IF nm # Null /\ (acc.bestNearMint = Null
                                                     \/ nm < acc.bestNearMint)
                                   THEN nm ELSE acc.bestNearMint,
                  calls |-> Append(acc.calls,
                                   [path |-> SuggestionsPath(m.releaseId), got |-> got])])

(* the result handleFullSearch builds from the matches of a search *)
FullResult(net, found0) ==
  LET sug == SuggestionLoop(net, found0.matches, 1,
                            [bestVgPlus |-> Null, bestNearMint |-> Null, calls |-> <<>>])
  IN [data |-> [global |-> buildResult([i \in 1..Len(found0.matches) |->
                                          SellPage(found0.matches[i])]),
                matchCount |-> Len(found0.matches),
                vgPlusPrice |-> sug.bestVgPlus,
                nearMintPrice |-> sug.bestNearMint],
      calls |-> found0.calls \o sug.calls]

(* a search that has found matches: the result with the calls made for it *)
DataOutcome(found0, full) ==
  [kind |-> "data", error |-> "", data |-> full.data,
   passes |-> found0.passes, calls |-> full.calls]

(* the rest of handleFullSearch once findMatchingReleases has settled *)
OutcomeOf(net, found0) ==
  IF found0.thrown # ""
  THEN [kind |-> "error", error |-> found0.thrown, data |-> <<>>,
        passes |-> found0.passes, calls |-> found0.calls]
  ELSE IF Len(found0.matches) = 0
  THEN [kind |-> "error", error |-> NoResultsError, data |-> <<>>,
        passes |-> found0.passes, calls |-> found0.calls]
  ELSE DataOutcome(found0, FullResult(net, found0))

(* what a handleFullSearch that missed the cache comes to: a result or an   *)
(* error, with the passes and the API calls it has made                     *)
SearchOutcome(net, trackName0) == OutcomeOf(net, findMatchingReleases(net, trackName0))

----------------------------------------------------------------------------
(* handleFullSearch and the search cache                                    *)

CACHE_TTL == 600000
CACHE_MAX == 50

(* searchCache[query], or Null; the cache is the sequence of its entries in *)
(* the order of Object.keys                                                 *)
CacheIndex(cache, query) ==
  IF \E i \in 1..Len(cache) : cache[i].key = query
  THEN CHOOSE i \in 1..Len(cache) : cache[i].key = query
  ELSE Null

(* the test of the first loop of pruneCache *)
Expired(e, t) == t - e.time > CACHE_TTL

(* the entry the second loop deletes: the first one of the smallest time *)
OldestIndex(keys) ==
  CHOOSE i \in 1..Len(keys) :
    /\ \A j \in 1..Len(keys) : keys[j].time >= keys[i].time
    /\ \A j \in 1..(i - 1) : keys[j].time > keys[i].time

RemoveAt(s, i) == SubSeq(s, 1, i - 1) \o SubSeq(s, i + 1, Len(s))

RECURSIVE EvictOldestAboveCap(_)
(* C14 mutant: the oldest entries go only while more than CACHE_MAX remain *)
EvictOldestAboveCap(keys) ==
  IF Len(keys) > CACHE_MAX THEN EvictOldestAboveCap(RemoveAt(keys, OldestIndex(keys)))
  ELSE keys

RECURSIVE EvictOldest(_)
(* while (keys.length >= CACHE_MAX) delete the oldest *)
EvictOldest(keys) ==
  IF Len(keys) >= CACHE_MAX THEN EvictOldest(RemoveAt(keys, OldestIndex(keys)))
  ELSE keys

(* pruneCache() at time t *)
pruneCache(cache, t) ==
  EvictOldest(SelectSeq(cache, LAMBDA e : ~Expired(e, t)))

(* searchCache[query] = { data: result, time: Date.now() } *)
StoreEntry(cache, query, data, t) ==
  LET i == CacheIndex(cache, query)
      e == [key |-> query, data |-> data, time |-> t]
  IN IF i = Null THEN Append(cache, e) ELSE [cache EXCEPT ![i] = e]

(* C15 mutant: an entry is served whatever its age *)
CacheHitAnyAge(cache, query, t) == CacheIndex(cache, query) # Null

(* cached && (Date.now() - cached.time) < CACHE_TTL *)
CacheHit(cache, query, t) ==
  LET i == CacheIndex(cache, query) IN
  i # Null /\ (t - cache[i].time) < CACHE_TTL

(* parseArtistTrack(query).track || query: not empty for a video title *)
TrackOf(query) == "track"

MaxSearches == 2

(* the listener receives discogs-full-search: handleFullSearch runs up to   *)
(* its first await, answering at once from the cache when it can            *)
FullSearchStart(query) ==
  /\ searches < MaxSearches
  /\ searches' = searches + 1
  /\ IF CacheHit(searchCache, query, now)
     THEN /\ response' = [kind |-> "data", error |-> "", query |-> query,
                          data |-> searchCache[CacheIndex(searchCache, query)].data]
          /\ lastRun' = [query |-> query, hit |-> TRUE, discovery |-> FALSE,
                         net |-> <<>>, passes |-> <<>>, calls |-> <<>>,
                         at |-> now, before |-> searchCache, pruned |-> searchCache]
          /\ UNCHANGED pending
     ELSE /\ pending' = pending \cup {[id |-> searches + 1, query |-> query]}
          /\ UNCHANGED <<response, lastRun>>
  /\ UNCHANGED <<popupVars, clockVars, searchCache, rateVars, urlVars, trackVars, helperVars, initVars, contentVars>>

(* the end of handleFullSearch with the outcome out, and the then or the    *)
(* catch callback of the listener                                           *)
Answer(req, net, out) ==
  /\ response' = [kind |-> out.kind, error |-> out.error, query |-> req.query,
                  data |-> out.data]
  /\ lastRun' = [query |-> req.query, hit |-> FALSE, discovery |-> TRUE,
                 net |-> net, passes |-> out.passes, calls |-> out.calls,
                 at |-> now, before |-> searchCache,
                 pruned |-> IF out.kind = "data" THEN pruneCache(searchCache, now)
                            ELSE searchCache]
  /\ searchCache' = IF out.kind = "data"
                    THEN StoreEntry(pruneCache(searchCache, now), req.query, out.data, now)
                    ELSE searchCache

(* the network has answered a pending search as net tells *)
FullSearchFinish(req, net) ==
  /\ req \in pending
  /\ pending' = pending \ {req}
  /\ Answer(req, net, SearchOutcome(net, TrackOf(req.query)))
  /\ UNCHANGED <<popupVars, clockVars, searches, rateVars, urlVars, trackVars, helperVars, initVars, contentVars>>

----------------------------------------------------------------------------
(* The search specification: one full search on an empty cache, under every *)
(* discovery result and every answer of the API with few faulty endpoints.  *)

MaxFaults == 1

GoogleSet ==
  {[kind |-> "ok", cands |-> c] :
     c \in {<<>>, <<MasterCand>>, <<ReleaseCand>>, <<MasterCand, ReleaseCand>>,
            <<ReleaseCand, MasterCand>>}}
    \cup {[kind |-> "notok", cands |-> <<>>], [kind |-> "throw", cands |-> <<>>]}

ApiSet ==
  {a \in [Paths -> Behaviours] : Cardinality({p \in Paths : a[p] # "200"}) <= MaxFaults}

Nets ==
  [google : GoogleSet, api : ApiSet, masterHasTrack : BOOLEAN, releaseHasTrack : BOOLEAN,
   releaseIsVinyl : BOOLEAN, releaseMaster : {Null, MasterId}]

SearchQuery == 1

SearchInit ==
  /\ ClockIdle
  /\ CacheIdle
  /\ ParserIdle /\ PopupIdle /\ RateIdle /\ UrlIdle /\ TrackIdle /\ HelperIdle /\ InitIdle /\ ContentIdle

SearchNext ==
  \/ searches = 0 /\ FullSearchStart(SearchQuery)
  \/ \E req \in pending, net \in Nets : FullSearchFinish(req, net)

SearchSpec == SearchInit /\ [][SearchNext]_vars

(* the calls of the last search that were answered 429 on every attempt *)
Exhausted(run) ==
  {i \in 1..Len(run.calls) : run.calls[i].got.error = RateLimitError}

(* C12: when a Discogs API call of a full search is answered 429 on every  *)
(* attempt, the search fails and the error reaches the response.            *)
C12_ExhaustedRetriesFail ==
  (lastRun # <<>> /\ ~lastRun.hit /\ Exhausted(lastRun) # {}) => response.kind = "error"

(* a search that was answered after running findMatchingReleases *)
Searched == lastRun # <<>> /\ ~lastRun.hit

FallbackPasses(run) == {i \in 1..Len(run.passes) : run.passes[i].trackName = ""}

(* C18: the unfiltered fallback pass runs at most once per query, only     *)
(* after the track-filtered pass over the candidates has ended with zero    *)
(* matches, and only over the first discovery candidate; when it too ends   *)
(* with zero matches the search fails with the no-results error.            *)
C18_FallbackOnceOverFirst ==
  Searched =>
    /\ Cardinality(FallbackPasses(lastRun)) <= 1
    /\ \A i \in FallbackPasses(lastRun) :
         /\ i = 2
         /\ lastRun.passes[1].trackName # ""
         /\ lastRun.passes[1].over = lastRun.net.google.cands
         /\ lastRun.passes[1].matches = 0
         /\ lastRun.passes[1].thrown = ""
         /\ lastRun.passes[i].over = <<lastRun.net.google.cands[1]>>
         /\ (lastRun.passes[i].matches = 0 /\ lastRun.passes[i].thrown = "")
              => (response.kind = "error" /\ response.error = NoResultsError)

C18_Witness ==
  /\ Searched
  /\ Len(lastRun.net.google.cands) = 2
  /\ Len(lastRun.passes) = 2
  /\ lastRun.passes[2].matches = 0 /\ lastRun.passes[2].thrown = ""
  /\ response.error = NoResultsError

----------------------------------------------------------------------------
(* The cache specification: searches for a few queries arrive while the     *)
(* clock advances, on a cache that earlier searches have filled.            *)

(* the clock advances by d milliseconds *)
MaxTicks == 2

ClockAdvance(d) ==
  /\ ticks < MaxTicks
  /\ ticks' = ticks + 1
  /\ now' = now + d
  /\ UNCHANGED <<popupVars, cacheVars, rateVars, urlVars, trackVars, helperVars, initVars, contentVars>>

AllOk == [p \in Paths |-> "200"]

(* the master with its two vinyl versions; the release alone, as earlier    *)
(* searches have found it; a discovery without candidates; a master lookup *)
(* that exhausts its retries                                                *)
MasterNet ==
  [google |-> [kind |-> "ok", cands |-> <<MasterCand>>], api |-> AllOk,
   masterHasTrack |-> TRUE, releaseHasTrack |-> TRUE, releaseIsVinyl |-> TRUE,
   releaseMaster |-> Null]
ReleaseNet == [MasterNet EXCEPT !.google.cands = <<ReleaseCand>>]
EmptyNet == [MasterNet EXCEPT !.google.cands = <<>>]
LimitedNet == [MasterNet EXCEPT !.api[MasterPath(MasterId)] = "429"]

CacheNets == {MasterNet, EmptyNet, LimitedNet}

(* the time at which the specification starts *)
StartTime == 2 * CACHE_TTL

(* the result the earlier searches have stored *)
StoredData == SearchOutcome(ReleaseNet, "track").data

Entry(k, t) == [key |-> k, data |-> StoredData, time |-> t]

(* caches earlier searches can have left: empty; one below the cap and at   *)
(* the cap with fresh entries, the oldest first; at the cap with entries    *)
(* 1..3 older than CACHE_TTL, entry 4 of age CACHE_TTL exactly and the      *)
(* oldest fresh entry last; at the cap with two oldest entries of one time  *)
InitialCaches ==
  { <<>>,
    [i \in 1..(CACHE_MAX - 1) |-> Entry(i, StartTime - 100 + i)],
    [i \in 1..CACHE_MAX |-> Entry(i, StartTime - 100 + i)],
    [i \in 1..CACHE_MAX |->
       IF i <= 3 THEN Entry(i, StartTime - CACHE_TTL - i)
       ELSE IF i = 4 THEN Entry(i, StartTime - CACHE_TTL)
       ELSE Entry(i, StartTime - 2 * i)],
    [i \in 1..CACHE_MAX |->
       IF i \in {7, 9} THEN Entry(i, StartTime - 500) ELSE Entry(i, StartTime - i)] }

(* a cached query, the query of age CACHE_TTL and a new one *)
CacheQueries == {1, 4, CACHE_MAX + 1}

TickSet == {1, CACHE_TTL - 1}

CacheInit ==
  /\ now = StartTime
  /\ ticks = 0
  /\ searchCache \in InitialCaches
  /\ pending = {}
  /\ searches = 0
  /\ response = <<>>
  /\ lastRun = <<>>
  /\ ParserIdle /\ PopupIdle /\ RateIdle /\ UrlIdle /\ TrackIdle /\ HelperIdle /\ InitIdle /\ ContentIdle

CacheNext ==
  \/ \E q \in CacheQueries : FullSearchStart(q)
  \/ \E req \in pending, net \in CacheNets : FullSearchFinish(req, net)
  \/ \E d \in TickSet : ClockAdvance(d)

CacheSpec == CacheInit /\ [][CacheNext]_vars

EntriesOf(cache) == {cache[i] : i \in 1..Len(cache)}

(* the entries pruneCache found older than CACHE_TTL, the others, and those *)
(* of the others it has deleted                                             *)
ExpiredBefore(run) == {e \in EntriesOf(run.before) : Expired(e, run.at)}
FreshBefore(run) == EntriesOf(run.before) \ ExpiredBefore(run)
Evicted(run) == FreshBefore(run) \ EntriesOf(run.pruned)

(* C14: after every completed handleFullSearch the cache holds at most     *)
(* CACHE_MAX entries; pruneCache deletes every expired entry (one older     *)
(* than CACHE_TTL), deletes other entries only while CACHE_MAX or more      *)
(* remain, and each entry it deletes so is no younger than those it keeps.  *)
C14_CacheBoundedAndPruned ==
  lastRun # <<>> =>
    /\ Len(searchCache) <= CACHE_MAX
    /\ (Searched /\ response.kind = "data") =>
         /\ EntriesOf(lastRun.pruned) \subseteq EntriesOf(lastRun.before)
         /\ ExpiredBefore(lastRun) \cap EntriesOf(lastRun.pruned) = {}
         /\ Cardinality(Evicted(lastRun)) =
              IF Cardinality(FreshBefore(lastRun)) >= CACHE_MAX
              THEN Cardinality(FreshBefore(lastRun)) - CACHE_MAX + 1 ELSE 0
         /\ \A e \in Evicted(lastRun) :
              \A f \in FreshBefore(lastRun) \ Evicted(lastRun) : e.time <= f.time

C14_Witness ==
  /\ Searched /\ response.kind = "data"
  /\ Evicted(lastRun) # {}
  /\ Len(searchCache) = CACHE_MAX
  /\ \E e \in Evicted(lastRun), f \in FreshBefore(lastRun) \ Evicted(lastRun) :
       e.time = f.time

(* the entries of the cache the last search found under its own query *)
OwnEntries(run) == {e \in EntriesOf(run.before) : e.key = run.query}

(* C15: a search is answered from the cache, without discovery and without *)
(* any fetch, only when the cache holds an entry for exactly its query of   *)
(* age below CACHE_TTL; an entry of age CACHE_TTL or more is never          *)
(* returned; a search that fails leaves the cache as it was.                *)
C15_CacheHitOnlyFresh ==
  lastRun # <<>> =>
    /\ lastRun.hit =>
         /\ \E e \in OwnEntries(lastRun) :
              lastRun.at - e.time < CACHE_TTL /\ response.data = e.data
         /\ response.kind = "data"
         /\ ~lastRun.discovery /\ lastRun.calls = <<>>
    /\ (\A e \in OwnEntries(lastRun) : lastRun.at - e.time >= CACHE_TTL) => ~lastRun.hit
    /\ (~lastRun.hit /\ response.kind = "error") => searchCache = lastRun.before

C15_Witness ==
  /\ lastRun # <<>> /\ lastRun.hit
  /\ \E e \in OwnEntries(lastRun) : lastRun.at - e.time = CACHE_TTL - 1
  /\ response.data # StoredData

----------------------------------------------------------------------------
(* The rate limiter: discogsGet calls of searches that run side by side.    *)
(* A call advances from one await to the next in one step.                  *)

RateLimit == 55
RateWindow == 60000
RateSlack == 200

(* the loop of rateOk: stamps older than the window are shifted out *)
RECURSIVE ShiftOld(_, _)
ShiftOld(stamps, t) ==
  IF Len(stamps) > 0 /\ t - stamps[1] > RateWindow THEN ShiftOld(Tail(stamps), t)
  ELSE stamps

(* the two searches the service worker handles side by side *)
Callers == {"first search", "second search"}

NewCall ==
  [pc |-> "idle", retries |-> 0, wakeAt |-> 0, waited |-> FALSE, fetches |-> 0,
   stamps |-> 0, error |-> "", result |-> "", seen |-> <<>>]

(* a search calls discogsGet(path, params): getToken() reads the storage *)
CallStart(c) ==
  /\ calls[c].pc = "idle"
  /\ calls' = [calls EXCEPT ![c].pc = "getToken"]
  /\ UNCHANGED <<popupVars, clockVars, cacheVars, discogsTimestamps, token, fetchLog,
                 urlVars, trackVars, helperVars, initVars, contentVars>>

(* C16 mutant: the call goes on to the rate limiter whatever the token *)
TokenReadUnchecked(c) ==
  /\ calls[c].pc = "getToken"
  /\ calls' = [calls EXCEPT ![c].pc = "rate"]
  /\ UNCHANGED <<popupVars, clockVars, cacheVars, discogsTimestamps, token, fetchLog,
                 urlVars, trackVars, helperVars, initVars, contentVars>>

(* the token has been read: without one the call throws NO_TOKEN, else it   *)
(* enters waitForDiscogsRate                                                *)
TokenRead(c) ==
  /\ calls[c].pc = "getToken"
  /\ calls' = IF token = ""
              THEN [calls EXCEPT ![c].pc = "failed", ![c].error = "NO_TOKEN"]
              ELSE [calls EXCEPT ![c].pc = "rate"]
  /\ UNCHANGED <<popupVars, clockVars, cacheVars, discogsTimestamps, token, fetchLog,
                 urlVars, trackVars, helperVars, initVars, contentVars>>

(* C30 mutant: rateOk leaves the old stamps in discogsTimestamps *)
RateCheckNoShift(c) ==
  /\ calls[c].pc = "rate"
  /\ LET stamps == discogsTimestamps IN
     /\ discogsTimestamps' = stamps
     /\ IF Len(stamps) < RateLimit
        THEN /\ fetchLog' = Append(fetchLog, now)
             /\ calls' = [calls EXCEPT ![c].pc = "fetching", ![c].waited = TRUE,
                                       ![c].fetches = @ + 1]
        ELSE /\ calls' = [calls EXCEPT ![c].pc = "sleeping", ![c].waited = TRUE,
                            ![c].wakeAt = now + (RateWindow - (now - stamps[1]) + RateSlack)]
             /\ UNCHANGED fetchLog
  /\ UNCHANGED <<popupVars, clockVars, cacheVars, token, urlVars, trackVars, helperVars, initVars, contentVars>>

(* one turn of the loop of waitForDiscogsRate: when rateOk admits the call  *)
(* the fetch is issued, else a timer is set                                 *)
RateCheck(c) ==
  /\ calls[c].pc = "rate"
  /\ LET stamps == ShiftOld(discogsTimestamps, now) IN
     /\ discogsTimestamps' = stamps
     /\ IF Len(stamps) < RateLimit
        THEN /\ fetchLog' = Append(fetchLog, now)
             /\ calls' = [calls EXCEPT ![c].pc = "fetching", ![c].waited = TRUE,
                                       ![c].fetches = @ + 1]
        ELSE /\ calls' = [calls EXCEPT ![c].pc = "sleeping", ![c].waited = TRUE,
                            ![c].wakeAt = now + (RateWindow - (now - stamps[1]) + RateSlack)]
             /\ UNCHANGED fetchLog
  /\ UNCHANGED <<popupVars, clockVars, cacheVars, token, urlVars, trackVars, helperVars, initVars, contentVars>>

(* the timer of waitForDiscogsRate fires *)
RateWake(c) ==
  /\ calls[c].pc = "sleeping"
  /\ now >= calls[c].wakeAt
  /\ calls' = [calls EXCEPT ![c].pc = "rate"]
  /\ UNCHANGED <<popupVars, clockVars, cacheVars, discogsTimestamps, token, fetchLog,
                 urlVars, trackVars, helperVars, initVars, contentVars>>

(* C29 mutant: the third 429 in a row is already one too many *)
FetchResponseTwoRetries(c, status, ra) ==
  /\ calls[c].pc = "fetching"
  /\ discogsTimestamps' = Append(discogsTimestamps, now)
  /\ LET attempt == calls[c].retries + 1
         pushed == [calls EXCEPT ![c].stamps = @ + 1, ![c].seen = Append(@, status)]
     IN calls' =
          IF status = 429
          THEN IF attempt >= RetryLimit
               THEN [pushed EXCEPT ![c].pc = "failed", ![c].error = RateLimitError]
               ELSE [pushed EXCEPT ![c].pc = "backoff", ![c].retries = attempt,
                                   ![c].wakeAt = now + ra * 1000]
          ELSE IF status = 401
          THEN [pushed EXCEPT ![c].pc = "failed", ![c].error = "Invalid Discogs token."]
          ELSE IF status = 403 \/ status = 404
          THEN [pushed EXCEPT ![c].pc = "done", ![c].result = "null"]
          ELSE IF ~(status \in 200..299)
          THEN [pushed EXCEPT ![c].pc = "failed", ![c].error = "Discogs API error"]
          ELSE [pushed EXCEPT ![c].pc = "done", ![c].result = "json"]
  /\ UNCHANGED <<popupVars, clockVars, cacheVars, token, fetchLog, urlVars, trackVars, helperVars, initVars, contentVars>>

(* the response arrives with the given status and Retry-After seconds: the  *)
(* time is pushed, then the status decides                                  *)
FetchResponse(c, status, ra) ==
  /\ calls[c].pc = "fetching"
  /\ discogsTimestamps' = Append(discogsTimestamps, now)
  /\ LET attempt == calls[c].retries + 1
         pushed == [calls EXCEPT ![c].stamps = @ + 1, ![c].seen = Append(@, status)]
     IN calls' =
          IF status = 429
          THEN IF attempt > RetryLimit
               THEN [pushed EXCEPT ![c].pc = "failed", ![c].error = RateLimitError]
               ELSE [pushed EXCEPT ![c].pc = "backoff", ![c].retries = attempt,
                                   ![c].wakeAt = now + ra * 1000]
          ELSE IF status = 401
          THEN [pushed EXCEPT ![c].pc = "failed", ![c].error = "Invalid Discogs token."]
          ELSE IF status = 403 \/ status = 404
          THEN [pushed EXCEPT ![c].pc = "done", ![c].result = "null"]
          ELSE IF ~(status \in 200..299)
          THEN [pushed EXCEPT ![c].pc = "failed", ![c].error = "Discogs API error"]
          ELSE [pushed EXCEPT ![c].pc = "done", ![c].result = "json"]
  /\ UNCHANGED <<popupVars, clockVars, cacheVars, token, fetchLog, urlVars, trackVars, helperVars, initVars, contentVars>>

(* the back-off timer fires: discogsGet calls itself with the attempt *)
BackoffOver(c) ==
  /\ calls[c].pc = "backoff"
  /\ now >= calls[c].wakeAt
  /\ calls' = [calls EXCEPT ![c].pc = "getToken"]
  /\ UNCHANGED <<popupVars, clockVars, cacheVars, discogsTimestamps, token, fetchLog,
                 urlVars, trackVars, helperVars, initVars, contentVars>>

(* the time a fetch takes in the history the specification starts from *)
FetchLatency == 100

RateStart == 2 * RateWindow

(* n earlier fetches, one a second, the last one answered just now *)
History(n) == [i \in 1..n |-> RateStart - 1000 * (n - i)]

StatusSet == {200, 404, 429}

RetryAfterSet == {1, 5}

RateTickSet == {1000, RateWindow + RateSlack}

RateInit ==
  /\ now = RateStart
  /\ ticks = 0
  /\ token \in {"", "token"}
  /\ \E n \in {0, RateLimit - 1, RateLimit} :
       /\ discogsTimestamps = History(n)
       /\ fetchLog = [i \in 1..n |-> History(n)[i] - FetchLatency]
  /\ calls = [c \in Callers |-> NewCall]
  /\ ParserIdle /\ PopupIdle /\ CacheIdle /\ UrlIdle /\ TrackIdle /\ HelperIdle /\ InitIdle /\ ContentIdle

RateNext ==
  \/ \E c \in Callers : CallStart(c)
  \/ \E c \in Callers : TokenRead(c)
  \/ \E c \in Callers : RateCheck(c)
  \/ \E c \in Callers : RateWake(c)
  \/ \E c \in Callers, status \in StatusSet, ra \in RetryAfterSet : FetchResponse(c, status, ra)
  \/ \E c \in Callers : BackoffOver(c)
  \/ \E d \in RateTickSet : ClockAdvance(d)

RateSpec == RateInit /\ [][RateNext]_vars

(* the fetches issued in the window that starts with fetch i *)
InWindow(i) ==
  {j \in 1..Len(fetchLog) : fetchLog[j] >= fetchLog[i] /\ fetchLog[j] < fetchLog[i] + RateWindow}

(* C13: under every interleaving of discogsGet calls, no window of 60000   *)
(* ms holds more than 55 fetches of the Discogs API.                        *)
C13_FetchesWithinLimit ==
  \A i \in 1..Len(fetchLog) : Cardinality(InWindow(i)) <= RateLimit

(* C16: without a token discogsGet fails with NO_TOKEN before it waits on  *)
(* the rate limiter, before any fetch and without recording a timestamp.    *)
C16_NoTokenFailsFirst ==
  \A c \in DOMAIN calls :
    /\ (token = "" /\ calls[c].pc \notin {"idle", "getToken"}) =>
         (calls[c].pc = "failed" /\ calls[c].error = "NO_TOKEN")
    /\ calls[c].error = "NO_TOKEN" =>
         (~calls[c].waited /\ calls[c].fetches = 0 /\ calls[c].stamps = 0)
    /\ token = "" => (discogsTimestamps = History(Len(discogsTimestamps))
                      /\ Len(fetchLog) = Len(discogsTimestamps))

C16_Witness ==
  /\ token = ""
  /\ Len(discogsTimestamps) = RateLimit
  /\ \A c \in Callers : calls[c].pc = "failed" /\ calls[c].error = "NO_TOKEN"

----------------------------------------------------------------------------
(* The filtered-stats specification: the listener answers                   *)
(* discogs-filtered-stats messages over sell pages of which some fail.      *)

FullFirstPage == <<"1 - 25 of 60">> \o Repeat(ListingUS5, 24) \o ListingDE3

(* entities with listings, entities whose first page is refused or throws,  *)
(* entities whose second page is refused or throws after a full first, and  *)
(* an entity whose full first page holds all its listings                   *)
(* an entity that gets one more listing between the fetches of its pages *)
GrownEntity ==
  <<Ok(<<"1 - 25 of 26">> \o Repeat(ListingUS5, FullPage)),
    Ok(<<"26 - 27 of 27">> \o ListingDE3 \o ListingUS3)>>

StatsEntities ==
  { <<Ok(ListingDE3 \o ListingUS5), NotOk>>,
    <<Ok(ListingUS3), NotOk>>,
    <<Ok(<<"No items for sale">>), NotOk>>,
    PagedEntity,
    RefusedEntity,
    <<Throws, NotOk>>,
    <<Ok(FullFirstPage), NotOk>>,
    <<Ok(FullFirstPage), Throws>>,
    <<Ok(Repeat(ListingUS5, FullPage)), Ok(ListingDE3)>>,
    GrownEntity }

StatsWorlds == UNION {[1..k -> StatsEntities] : k \in 1..MaxEntities}

RECURSIVE FetchCount(_, _, _, _, _)
(* the number of fetches the loop of scrapeFilteredListings issues from     *)
(* page on: a fetch that is refused or throws is the last one                *)
FetchCount(fetches, page, usOnly, vgPlus, st) ==
  IF page > MAX_SCRAPE_PAGES THEN page - 1
  ELSE IF fetches[page].kind # "ok" THEN page
  ELSE LET st1 == AddPage(st, page, parseFilteredPage(fetches[page].html, usOnly, vgPlus)) IN
       IF AfterPage(page, parseFilteredPage(fetches[page].html, usOnly, vgPlus), st1)
            = "continue"
       THEN FetchCount(fetches, page + 1, usOnly, vgPlus, st1)
       ELSE page

(* the pages scrapeFilteredListings fetches of an entity *)
FetchedPages(fetches, usOnly, vgPlus) ==
  1..FetchCount(fetches, 1, usOnly, vgPlus,
                [totalListings |-> 0, totalOnPages |-> 0, allMatched |-> 0,
                 allPrices |-> <<>>, lowestPrice |-> Null])

(* msg.matches as applyFilters sends them: every match or a single one *)
MatchLists(w) == {[i \in 1..Len(w) |-> i]} \cup {<<k>> : k \in 1..Len(w)}

(* the listener receives its first discogs-filtered-stats message *)
FilteredStatsRequest(ents, usOnly, vgPlus) ==
  /\ pending = {}
  /\ response = <<>>
  /\ pending' = {[id |-> 1, matches |-> ents, usOnly |-> usOnly, vgPlus |-> vgPlus]}
  /\ UNCHANGED <<popupVars, clockVars, searchCache, searches, response, lastRun, rateVars,
                 urlVars, trackVars, helperVars, initVars, contentVars>>

(* handleFilteredStats has settled: the then callback of the listener *)
FilteredStatsFinish(req) ==
  /\ req \in pending
  /\ pending' = pending \ {req}
  /\ response' = [kind |-> "data", req |-> req,
                  data |-> handleFilteredStats(world, req.matches, req.usOnly, req.vgPlus)]
  /\ lastRun' = [fetched |-> [i \in 1..Len(req.matches) |->
                                FetchedPages(world[req.matches[i]], req.usOnly, req.vgPlus)]]
  /\ UNCHANGED <<popupVars, clockVars, searchCache, searches, rateVars, urlVars,
                 trackVars, helperVars, initVars, contentVars>>

StatsInit ==
  /\ world \in StatsWorlds
  /\ cachedData = <<>>
  /\ usToggle = FALSE
  /\ vgToggle = FALSE
  /\ selectedMatchIndex = Null
  /\ inflight = {}
  /\ sent = 0
  /\ display = <<>>
  /\ ParserIdle /\ ClockIdle /\ CacheIdle /\ RateIdle /\ UrlIdle /\ TrackIdle /\ HelperIdle /\ InitIdle /\ ContentIdle

StatsNext ==
  \/ \E ents \in MatchLists(world), usOnly, vgPlus \in BOOLEAN :
       FilteredStatsRequest(ents, usOnly, vgPlus)
  \/ \E req \in pending : FilteredStatsFinish(req)

StatsSpec == StatsInit /\ [][StatsNext]_vars

(* some page fetched of the entity was refused or threw *)
AnyPageFails(fetches, usOnly, vgPlus) ==
  \E p \in FetchedPages(fetches, usOnly, vgPlus) : fetches[p].kind # "ok"

(* the first page was refused, or some page fetched threw *)
FirstPageFailsOrThrows(fetches, usOnly, vgPlus) ==
  \/ fetches[1].kind # "ok"
  \/ \E p \in FetchedPages(fetches, usOnly, vgPlus) : fetches[p].kind = "throw"

ZeroStats == [numForSale |-> 0, scrapedTotal |-> 0, lowestPrice |-> Null, medianPrice |-> Null]

Aggregate(data) ==
  [numForSale |-> data.numForSale, scrapedTotal |-> data.scrapedTotal,
   lowestPrice |-> data.lowestPrice, medianPrice |-> data.medianPrice]

(* the answer to a filtered-stats request in which entity k failed: a zero  *)
(* entry for k, one entry per entity, each other entry what that entity     *)
(* yields alone, and the aggregate of the request without k                 *)
FailureContained(k) ==
  LET req == response.req
      stats == response.data.matchStats
      others == RemoveAt(req.matches, k)
  IN /\ stats[k] = ZeroStats
     /\ Len(stats) = Len(req.matches)
     /\ \A j \in 1..Len(stats) :
          j # k => stats[j] = scrapeFilteredListings(world[req.matches[j]], req.usOnly,
                                                     req.vgPlus)
     /\ Aggregate(response.data)
          = Aggregate(handleFilteredStats(world, others, req.usOnly, req.vgPlus))

StatsAnswered == response # <<>> /\ "req" \in DOMAIN response

(* C17 as stated: when a page of one entity is refused or throws, the      *)
(* entity gets a zero result and the rest of the answer is as without it.   *)
C17_AnyFailureYieldsZero ==
  StatsAnswered =>
    \A k \in 1..Len(response.req.matches) :
      AnyPageFails(world[response.req.matches[k]], response.req.usOnly, response.req.vgPlus)
        => FailureContained(k)

(* C17: when the first page of one entity is refused, or a page of it      *)
(* throws, the entity gets a zero-count, null-price result, and             *)
(* handleFilteredStats returns one entry per entity and an aggregate that   *)
(* reflect the other entities unchanged.                                    *)
C17_FirstPageOrThrowYieldsZero ==
  StatsAnswered =>
    \A k \in 1..Len(response.req.matches) :
      FirstPageFailsOrThrows(world[response.req.matches[k]], response.req.usOnly,
                             response.req.vgPlus)
        => FailureContained(k)

C17_Witness ==
  /\ StatsAnswered
  /\ Len(response.req.matches) = 2
  /\ world[1] = <<Ok(FullFirstPage), Throws>>
  /\ response.data.matchStats[1] = ZeroStats
  /\ response.data.matchStats[2].numForSale > 0
  /\ response.data.numForSale = response.data.matchStats[2].numForSale

----------------------------------------------------------------------------
(* parseDiscogsUrl: a URL is the sequence of its parts between slashes,     *)
(* from the host on.                                                        *)

UrlSet ==
  { <<"www.discogs.com", "master", "100">>,
    <<"www.discogs.com", "Artist", "master", "100">>,
    <<"www.discogs.com", "master", "0100">>,
    <<"www.discogs.com", "release", "100">>,
    <<"www.discogs.com", "Artist", "release", "200-Title">>,
    <<"www.discogs.com", "release", "master", "300">>,
    <<"www.discogs.com", "master", "100?u=www.discogs.com", "release", "200">>,
    <<"www.discogs.com", "a", "b", "master", "100">>,
    <<"www.discogs.com", "master", "abc">>,
    <<"www.discogs.com", "artist", "100">>,
    <<"www.google.com", "search?q=test">> }

(* the part ends with discogs.com *)
EndsWithHost(part) == part \in {"www.discogs.com", "100?u=www.discogs.com"}

(* parseInt of the digits the part starts with, Null when it starts with none *)
LeadingDigits(part) ==
  IF part \in {"100", "0100", "100?u=www.discogs.com"} THEN 100
  ELSE IF part = "200-Title" \/ part = "200" THEN 200
  ELSE IF part = "300" THEN 300
  ELSE Null

HasDigits(url, i) == i <= Len(url) /\ LeadingDigits(url[i]) # Null

(* the id the pattern discogs.com/(one part/)?word/digits captures when it  *)
(* is matched from part i on, the optional part being tried first           *)
MatchAt(url, i, word) ==
  IF ~EndsWithHost(url[i]) THEN Null
  ELSE IF i + 2 <= Len(url) /\ url[i + 1] # "" /\ url[i + 2] = word /\ HasDigits(url, i + 3)
  THEN LeadingDigits(url[i + 3])
  ELSE IF i + 1 <= Len(url) /\ url[i + 1] = word /\ HasDigits(url, i + 2)
  THEN LeadingDigits(url[i + 2])
  ELSE Null

(* url.match(pattern): the leftmost match *)
UrlMatch(url, word) ==
  LET hits == {i \in 1..Len(url) : MatchAt(url, i, word) # Null} IN
  IF hits = {} THEN Null
  ELSE MatchAt(url, CHOOSE i \in hits : \A j \in hits : i <= j, word)

(* C19 mutant: the key is the id alone *)
SeenKeyIdOnly(type, id) == <<"", id>>

(* "m" + mid and "r" + rid *)
SeenKey(type, id) == <<IF type = "master" THEN "m" ELSE "r", id>>

(* if (!seen[key]) { seen[key] = true; results.push(...) } *)
PushIfNew(st, type, id, url) ==
  IF id = Null \/ SeenKey(type, id) \in st.seen THEN st
  ELSE [seen |-> st.seen \cup {SeenKey(type, id)},
        results |-> Append(st.results, [type |-> type, id |-> id, url |-> url])]

MaxUrls == 3

parseDiscogsUrl(url) ==
  /\ Len(urlLog) < MaxUrls
  /\ urlLog' = Append(urlLog, url)
  /\ LET afterMaster == PushIfNew([seen |-> seen, results |-> results], "master",
                                  UrlMatch(url, "master"), url)
         afterRelease == PushIfNew(afterMaster, "release", UrlMatch(url, "release"), url)
     IN /\ results' = afterRelease.results
        /\ seen' = afterRelease.seen
  /\ UNCHANGED <<popupVars, clockVars, cacheVars, rateVars, trackVars, helperVars, initVars, contentVars>>

UrlInit ==
  /\ results = <<>>
  /\ seen = {}
  /\ urlLog = <<>>
  /\ ParserIdle /\ PopupIdle /\ ClockIdle /\ CacheIdle /\ RateIdle /\ TrackIdle /\ HelperIdle /\ InitIdle /\ ContentIdle

UrlNext == \E url \in UrlSet : parseDiscogsUrl(url)

UrlSpec == UrlInit /\ [][UrlNext]_vars

(* the entities a URL names *)
Named(url) ==
  {<<"master", UrlMatch(url, "master")>>, <<"release", UrlMatch(url, "release")>>}
    \ {<<"master", Null>>, <<"release", Null>>}

(* the place in urlLog at which an entity was named first *)
FirstSeen(type, id) ==
  CHOOSE i \in 1..Len(urlLog) :
    /\ <<type, id>> \in Named(urlLog[i])
    /\ \A j \in 1..(i - 1) : <<type, id>> \notin Named(urlLog[j])

(* C19: after any sequence of parseDiscogsUrl calls on one results array   *)
(* and one seen set, no two entries have the same type and id; the entries  *)
(* are those the URLs name, a master and a release of one id both, in the   *)
(* order in which they were first seen, each with the URL that named it     *)
(* first; a URL that names nothing adds nothing to results and seen.        *)
C19_ResultsDeduplicated ==
  /\ \A i, j \in 1..Len(results) :
       (results[i].type = results[j].type /\ results[i].id = results[j].id) => i = j
  /\ {<<results[i].type, results[i].id>> : i \in 1..Len(results)}
       = UNION {Named(urlLog[k]) : k \in 1..Len(urlLog)}
  /\ \A i \in 1..Len(results) :
       /\ results[i].url = urlLog[FirstSeen(results[i].type, results[i].id)]
       /\ \A j \in (i + 1)..Len(results) :
            /\ FirstSeen(results[i].type, results[i].id)
                 <= FirstSeen(results[j].type, results[j].id)
            /\ FirstSeen(results[i].type, results[i].id)
                 = FirstSeen(results[j].type, results[j].id)
                 => (results[i].type = "master" /\ results[j].type = "release")
  /\ Cardinality(seen) = Len(results)

C19_Witness ==
  /\ Len(urlLog) = 3
  /\ Named(urlLog[1]) = {}
  /\ Len(results) = 2
  /\ results[1].type = "release" /\ results[2].type = "master"
  /\ results[1].id = results[2].id

----------------------------------------------------------------------------
(* tracklistContains: a string is the sequence of its characters.           *)

UpperCase ==
  <<"A", "B", "C", "D", "E", "F", "G", "H", "I", "J", "K", "L", "M",
    "N", "O", "P", "Q", "R", "S", "T", "U", "V", "W", "X", "Y", "Z">>

LowerCase ==
  <<"a", "b", "c", "d", "e", "f", "g", "h", "i", "j", "k", "l", "m",
    "n", "o", "p", "q", "r", "s", "t", "u", "v", "w", "x", "y", "z">>

Digits == {"0", "1", "2", "3", "4", "5", "6", "7", "8", "9"}

(* toLowerCase of a character *)
Lower(c) ==
  IF \E i \in 1..Len(UpperCase) : UpperCase[i] = c
  THEN LowerCase[CHOOSE i \in 1..Len(UpperCase) : UpperCase[i] = c]
  ELSE IF c = "É" THEN "é"
  ELSE c

(* the characters \s matches: the blank and the tab stand for them *)
Whitespace == {" ", "\t"}

(* the characters the first replace of normalize keeps: a-z, 0-9, \s *)
Kept == {LowerCase[i] : i \in 1..Len(LowerCase)} \cup Digits \cup Whitespace

RECURSIVE Collapse(_)
(* replace(/\s+/g, " "): a run of whitespace becomes one blank *)
Collapse(str) ==
  IF Len(str) = 0 THEN str
  ELSE IF str[1] \in Whitespace
  THEN IF Len(str) >= 2 /\ str[2] \in Whitespace THEN Collapse(Tail(str))
       ELSE <<" ">> \o Collapse(Tail(str))
  ELSE <<str[1]>> \o Collapse(Tail(str))

(* trim() of a string whose blanks are single *)
Trim(str) ==
  LET a == IF Len(str) > 0 /\ str[1] = " " THEN 2 ELSE 1
      b == IF Len(str) > 0 /\ str[Len(str)] = " " THEN Len(str) - 1 ELSE Len(str)
  IN SubSeq(str, a, b)


(* C27 mutant: the result is not trimmed *)
normalizeUntrimmed(str) ==
  Collapse(SelectSeq([i \in 1..Len(str) |-> Lower(str[i])], LAMBDA c : c \in Kept))

(* normalize(s) *)
normalize(str) ==
  Trim(Collapse(SelectSeq([i \in 1..Len(str) |-> Lower(str[i])], LAMBDA c : c \in Kept)))

RECURSIVE Split(_)
(* split(" ") of a normalized string *)
Split(str) ==
  IF \A i \in 1..Len(str) : str[i] # " " THEN <<str>>
  ELSE LET i == CHOOSE k \in 1..Len(str) :
                  str[k] = " " /\ \A j \in 1..(k - 1) : str[j] # " "
       IN <<SubSeq(str, 1, i - 1)>> \o Split(SubSeq(str, i + 1, Len(str)))

RECURSIVE Join(_)
(* the words with one blank between them *)
Join(ws) ==
  IF Len(ws) = 0 THEN <<>>
  ELSE IF Len(ws) = 1 THEN ws[1]
  ELSE ws[1] \o <<" ">> \o Join(Tail(ws))

(* replace(/\bfrom\b/g, to) for a single word, on the words of a string *)
ReplaceWord(ws, from, to) == [i \in 1..Len(ws) |-> IF ws[i] = from THEN to ELSE ws[i]]

RECURSIVE ReplaceMidNight(_)
(* replace(/\bmid night\b/g, "midnigh"), on the words of a string *)
ReplaceMidNight(ws) ==
  IF Len(ws) = 0 THEN ws
  ELSE IF Len(ws) >= 2 /\ ws[1] = <<"m", "i", "d">> /\ ws[2] = <<"n", "i", "g", "h", "t">>
  THEN <<<<"m", "i", "d", "n", "i", "g", "h">>>> \o ReplaceMidNight(SubSeq(ws, 3, Len(ws)))
  ELSE <<ws[1]>> \o ReplaceMidNight(Tail(ws))

(* fuzzyNorm(s) *)
fuzzyNorm(str) ==
  LET w0 == Split(normalize(str))
      w1 == ReplaceWord(w0, <<"n", "i", "t", "e">>, <<"n", "i", "g", "h", "t">>)
      w2 == ReplaceWord(w1, <<"m", "i", "d", "n", "i", "g", "h", "t">>,
                        <<"m", "i", "d", "n", "i", "g", "h">>)
      w3 == ReplaceWord(w2, <<"m", "i", "d", "n", "i", "t", "e">>,
                        <<"m", "i", "d", "n", "i", "g", "h">>)
      w4 == ReplaceMidNight(w3)
      w5 == ReplaceWord(w4, <<"t", "h", "a">>, <<"t", "h", "e">>)
  IN Join(w5)


(* C21 mutant: a word of needle need only begin a word of haystack *)
wordsContainPrefix(haystack, needle) ==
  LET hw == Split(haystack)
      nw == Split(needle)
  IN \A w \in 1..Len(nw) : \E v \in 1..Len(hw) :
       Len(hw[v]) >= Len(nw[w]) /\ SubSeq(hw[v], 1, Len(nw[w])) = nw[w]

(* wordsContain(haystack, needle): every word of needle is one of haystack *)
wordsContain(haystack, needle) ==
  LET hw == Split(haystack)
      nw == Split(needle)
  IN \A w \in 1..Len(nw) : \E v \in 1..Len(hw) : hw[v] = nw[w]

(* an entry without type_ *)
NoKind == ""

(* C20 mutant: a short name is matched by the words rule too *)
TitleMatchesByWords(t, name, needle, needleFuzzy, isShort) ==
  LET title == normalize(t.title) IN
  /\ t.type = NoKind \/ t.type = "track"
  /\ title # <<>>
  /\ \/ wordsContain(title, needle) \/ wordsContain(needle, title)
     \/ wordsContain(fuzzyNorm(t.title), needleFuzzy)
     \/ wordsContain(needleFuzzy, fuzzyNorm(t.title))

(* the body of the loop of tracklistContains: entry t makes it return true *)
TitleMatches(t, name, needle, needleFuzzy, isShort) ==
  LET title == normalize(t.title) IN
  /\ t.type = NoKind \/ t.type = "track"
  /\ title # <<>>
  /\ IF isShort THEN title = needle
     ELSE \/ wordsContain(title, needle) \/ wordsContain(needle, title)
          \/ wordsContain(fuzzyNorm(t.title), needleFuzzy)
          \/ wordsContain(needleFuzzy, fuzzyNorm(t.title))

tracklistContains(list, name) ==
  IF Len(list) = 0 \/ Len(name) = 0 THEN FALSE
  ELSE IF Len(normalize(name)) < 2 THEN FALSE
  ELSE \E i \in 1..Len(list) :
         TitleMatches(list[i], name, normalize(name), fuzzyNorm(name),
                      Len(normalize(name)) <= 3)

MaxNameLen == 3
MaxTracks == 2

NameAlphabet == {"O", "k", "!", " "}

(* every short name over the alphabet, and some longer ones *)
NameSet ==
  SeqsUpTo(NameAlphabet, MaxNameLen)
    \cup { <<"O", "k", " ", "o", "k">>, <<"o", "k", "o", "k">>, <<"T", "h", "a", " ", "o", "k">>,
           <<"o", "k", "!", " ", " ", "k", "o">>, <<"1", "!">>,
           <<"M", "i", "d", " ", "N", "i", "t", "e">> }

TitleSet ==
  { <<"O", "k">>, <<"o", "K", "!", " ">>, <<"O", "k", "o">>, <<"!">>,
    <<"T", "h", "e", " ", "O", "K", " ", "M", "i", "d", "n", "i", "g", "h", "t">> }

(* type_ of an entry: a track, a heading, or none *)
KindSet == {"track", "heading", NoKind}

EntrySet == [title : TitleSet, type : KindSet]

TrackInit ==
  /\ tracklist \in SeqsUpTo(EntrySet, MaxTracks)
  /\ trackName \in NameSet
  /\ found = <<>>
  /\ ParserIdle /\ PopupIdle /\ ClockIdle /\ CacheIdle /\ RateIdle /\ UrlIdle /\ HelperIdle /\ InitIdle /\ ContentIdle

TracklistContains ==
  /\ found = <<>>
  /\ found' = <<tracklistContains(tracklist, trackName)>>
  /\ UNCHANGED <<popupVars, clockVars, cacheVars, rateVars, urlVars, tracklist, trackName, helperVars, initVars, contentVars>>

TrackNext == TracklistContains

TrackSpec == TrackInit /\ [][TrackNext]_vars

(* the entries that count as tracks *)
TrackEntries == {i \in 1..Len(tracklist) : tracklist[i].type \in {NoKind, "track"}}

(* C20: a name whose normalized form is shorter than 2 is never found; a   *)
(* name whose normalized form has 2 or 3 characters is found if and only if *)
(* the normalized title of some entry that is a track, or has no kind,      *)
(* equals the normalized name.                                              *)
C20_ShortNamesExactOnly ==
  found # <<>> =>
    /\ Len(normalize(trackName)) < 2 => found[1] = FALSE
    /\ Len(normalize(trackName)) \in {2, 3} =>
         (found[1] <=> \E i \in TrackEntries :
                      normalize(tracklist[i].title) = normalize(trackName))

C20_Witness ==
  /\ found = <<TRUE>>
  /\ Len(normalize(trackName)) = 2
  /\ trackName # normalize(trackName)
  /\ Len(tracklist) = 2
  /\ tracklist[1].type = "heading" /\ normalize(tracklist[1].title) = normalize(trackName)
  /\ tracklist[2].type = NoKind /\ tracklist[2].title # trackName

(* the words of a normalized string, as a set *)
WordsOf(str) == {Split(str)[i] : i \in 1..Len(Split(str))}

(* every word of one string is a word of the other, in either direction *)
EitherContains(a, b) == WordsOf(a) \subseteq WordsOf(b) \/ WordsOf(b) \subseteq WordsOf(a)

(* entry i matches the name by whole words, on either output *)
WordMatch(i) ==
  /\ normalize(tracklist[i].title) # <<>>
  /\ \/ EitherContains(normalize(tracklist[i].title), normalize(trackName))
     \/ EitherContains(fuzzyNorm(tracklist[i].title), fuzzyNorm(trackName))

(* the title of entry i is a proper beginning of a word of the name and no *)
(* word of it                                                               *)
OnlyPrefix(i) ==
  LET title == normalize(tracklist[i].title) IN
  /\ title # <<>>
  /\ \E w \in WordsOf(normalize(trackName)) :
       Len(w) > Len(title) /\ SubSeq(w, 1, Len(title)) = title
  /\ ~WordMatch(i)

(* C21: a name whose normalized form has 4 characters or more is found if   *)
(* and only if some entry that is a track, or has no kind, and whose        *)
(* normalized title is not empty, contains the words of the name or has its *)
(* words contained in the name, on the normalize or the fuzzyNorm output; a *)
(* tracklist of titles that only begin a word of the name, or of headings,  *)
(* is not found.                                                            *)
C21_LongNamesByWholeWords ==
  (found # <<>> /\ Len(normalize(trackName)) >= 4) =>
    /\ found[1] <=> \E i \in TrackEntries : WordMatch(i)
    /\ (\A i \in 1..Len(tracklist) : OnlyPrefix(i)) /\ Len(tracklist) > 0 => found[1] = FALSE
    /\ TrackEntries = {} => found[1] = FALSE

C21_Witness ==
  /\ found = <<TRUE>>
  /\ Len(normalize(trackName)) >= 4
  /\ Len(tracklist) = 2
  /\ tracklist[1].type = "heading" /\ tracklist[2].type = "track"
  /\ tracklist[1].title = tracklist[2].title
  /\ ~EitherContains(normalize(tracklist[2].title), normalize(trackName))
  /\ EitherContains(fuzzyNorm(tracklist[2].title), fuzzyNorm(trackName))

(* a title that only begins a word of the name is not found *)
C21_PrefixWitness ==
  /\ found = <<FALSE>>
  /\ Len(normalize(trackName)) >= 4
  /\ Len(tracklist) = 1 /\ tracklist[1].type = "track" /\ OnlyPrefix(1)

----------------------------------------------------------------------------
(* String helpers called on their own: parseArtistTrack, computeMedian,     *)
(* normalize.  The en dash and the em dash are the characters "endash" and  *)
(* "emdash".                                                                *)

(* the separators of parseArtistTrack, in its order *)
seps ==
  << <<" ", "|", " ">>, <<" ", "-", " ">>, <<" ", "endash", " ">>,
     <<" ", "emdash", " ">>, <<":", " ">> >>

(* the positions (from 0) at which sub occurs in str *)
Occurrences(str, sub) ==
  {i \in 0..(Len(str) - Len(sub)) : SubSeq(str, i + 1, i + Len(sub)) = sub}

(* String.prototype.indexOf *)
IndexOf(str, sub) ==
  IF Occurrences(str, sub) = {} THEN 0 - 1
  ELSE CHOOSE i \in Occurrences(str, sub) : \A j \in Occurrences(str, sub) : i <= j

RECURSIVE StringTrim(_)
(* String.prototype.trim over blanks *)
StringTrim(str) ==
  IF Len(str) = 0 THEN str
  ELSE IF str[1] = " " THEN StringTrim(Tail(str))
  ELSE IF str[Len(str)] = " " THEN StringTrim(SubSeq(str, 1, Len(str) - 1))
  ELSE str

(* the return statement inside the loop of parseArtistTrack *)
SplitQuery(query, idx, sep) ==
  [artist |-> StringTrim(SubSeq(query, 1, idx)),
   track |-> StringTrim(SubSeq(query, idx + Len(sep) + 1, Len(query)))]

(* C22 mutant: the separator that occurs first in the string wins *)
parseArtistTrackEarliest(query) ==
  LET hits == {i \in 1..Len(seps) : IndexOf(query, seps[i]) > 0} IN
  IF hits = {} THEN [artist |-> <<>>, track |-> query]
  ELSE LET i == CHOOSE k \in hits : \A l \in hits :
                  \/ IndexOf(query, seps[k]) < IndexOf(query, seps[l])
                  \/ IndexOf(query, seps[k]) = IndexOf(query, seps[l]) /\ k <= l
       IN SplitQuery(query, IndexOf(query, seps[i]), seps[i])

RECURSIVE SepLoop(_, _)
(* the loop of parseArtistTrack from separator i on *)
SepLoop(query, i) ==
  IF i > Len(seps) THEN [artist |-> <<>>, track |-> query]
  ELSE IF IndexOf(query, seps[i]) > 0
  THEN SplitQuery(query, IndexOf(query, seps[i]), seps[i])
  ELSE SepLoop(query, i + 1)

parseArtistTrack(query) == SepLoop(query, 1)

MaxParts == 4

(* the pieces video titles are put together from *)
QueryParts ==
  { <<"a">>, <<"b">>, <<" ">>, <<"-">>, <<" ", "|", " ">>, <<" ", "-", " ">>,
    <<" ", "endash", " ">>, <<" ", "emdash", " ">>, <<":", " ">> }

QuerySet == {Flatten(ps) : ps \in SeqsUpTo(QueryParts, MaxParts)}

MaxPrices == 4

(* whole dollars, in quarters: the mean of two of them is a whole number *)
PriceSet == {4, 8, 12, 20}

(* the arrays computeMedian is called with are sorted *)
SortedPrices ==
  {a \in SeqsUpTo(PriceSet, MaxPrices) : \A i \in 1..(Len(a) - 1) : a[i] <= a[i + 1]}

MaxNameChars == 4

StringAlphabet == {"A", "b", "1", "!", " ", "\t", "É"}

(* the helper called; for normalize also with null or undefined, which the *)
(* argument <<>> stands for then                                           *)
HelperInit ==
  /\ \/ helper = "parseArtistTrack" /\ arg \in QuerySet
     \/ helper = "computeMedian" /\ arg \in SortedPrices
     \/ helper = "normalize" /\ arg \in SeqsUpTo(StringAlphabet, MaxNameChars)
     \/ helper \in {"normalize(null)", "normalize(undefined)"} /\ arg = <<>>
  /\ ret = <<>>
  /\ ParserIdle /\ PopupIdle /\ ClockIdle /\ CacheIdle /\ RateIdle /\ UrlIdle /\ TrackIdle /\ InitIdle /\ ContentIdle

ParseArtistTrack ==
  /\ helper = "parseArtistTrack"
  /\ ret = <<>>
  /\ ret' = <<parseArtistTrack(arg)>>
  /\ UNCHANGED <<popupVars, clockVars, cacheVars, rateVars, urlVars, trackVars, helper, arg, initVars, contentVars>>

ComputeMedian ==
  /\ helper = "computeMedian"
  /\ ret = <<>>
  /\ ret' = <<computeMedian(arg)>>
  /\ UNCHANGED <<popupVars, clockVars, cacheVars, rateVars, urlVars, trackVars, helper, arg, initVars, contentVars>>

(* s || "" is the argument, or the empty string for null and undefined *)
Normalize ==
  /\ helper \in {"normalize", "normalize(null)", "normalize(undefined)"}
  /\ ret = <<>>
  /\ ret' = <<normalize(IF helper = "normalize" THEN arg ELSE <<>>)>>
  /\ UNCHANGED <<popupVars, clockVars, cacheVars, rateVars, urlVars, trackVars, helper, arg, initVars, contentVars>>

HelperNext ==
  \/ ParseArtistTrack
  \/ ComputeMedian
  \/ Normalize

HelperSpec == HelperInit /\ [][HelperNext]_vars

(* the separators, by rank, whose first occurrence in the query is past its start *)
Usable == {i \in 1..Len(seps) : Occurrences(arg, seps[i]) # {} /\ ~(0 \in Occurrences(arg, seps[i]))}

(* the first occurrence of separator i in the query *)
FirstAt(i) == CHOOSE p \in Occurrences(arg, seps[i]) : \A q \in Occurrences(arg, seps[i]) : p <= q

(* C22: parseArtistTrack splits at the first occurrence of the separator of *)
(* highest rank among those whose first occurrence is past index 0, also    *)
(* when a separator of lower rank occurs earlier; with no such separator    *)
(* the artist is empty and the track is the query unchanged.                *)
C22_SplitsAtHighestPriority ==
  (helper = "parseArtistTrack" /\ ret # <<>>) =>
    IF Usable = {}
    THEN ret[1].artist = <<>> /\ ret[1].track = arg
    ELSE LET i == CHOOSE k \in Usable : \A l \in Usable : k <= l IN
         /\ ret[1].artist = StringTrim(SubSeq(arg, 1, FirstAt(i)))
         /\ ret[1].track = StringTrim(SubSeq(arg, FirstAt(i) + Len(seps[i]) + 1, Len(arg)))

C22_Witness ==
  /\ helper = "parseArtistTrack" /\ ret # <<>>
  /\ 1 \in Usable /\ 2 \in Usable
  /\ FirstAt(2) < FirstAt(1)
  /\ 0 \in Occurrences(arg, seps[5])
  /\ ret[1].artist = <<":", " ", "-">>

----------------------------------------------------------------------------
(* buildResult on its own: the worker builds the result of a search whose   *)
(* matches are the entities of the world.                                   *)

MaxMatches == 3

(* sell pages: one or two listings, a listing without a price of its own, a *)
(* refused page, a page whose header counts 0 above a listing, and a page   *)
(* whose header counts more than it shows                                   *)
BuildEntities ==
  { <<Ok(ListingUS5), NotOk>>,
    <<Ok(ListingDE3 \o ListingUS5), NotOk>>,
    <<Ok(ListingUnpriced), NotOk>>,
    <<NotOk, NotOk>>,
    <<Ok(<<"1 - 25 of 0">> \o ListingDE3), NotOk>>,
    <<Ok(<<"1 - 25 of 60">> \o ListingUS5 \o ListingUS5), NotOk>> }

BuildWorlds == UNION {[1..k -> BuildEntities] : k \in 1..MaxMatches}

BuildInit ==
  /\ world \in BuildWorlds
  /\ cachedData = <<>>
  /\ usToggle = FALSE
  /\ vgToggle = FALSE
  /\ selectedMatchIndex = Null
  /\ inflight = {}
  /\ sent = 0
  /\ display = <<>>
  /\ ParserIdle /\ ClockIdle /\ CacheIdle /\ RateIdle /\ UrlIdle /\ TrackIdle /\ HelperIdle /\ InitIdle /\ ContentIdle

(* handleFullSearch hands buildResult(matches, query, false) to sendResponse *)
BuildResult ==
  /\ response = <<>>
  /\ response' = [kind |-> "data", data |-> buildResult(world)]
  /\ UNCHANGED <<popupVars, clockVars, searchCache, pending, searches, lastRun, rateVars,
                 urlVars, trackVars, helperVars, initVars, contentVars>>

BuildNext == BuildResult

BuildSpec == BuildInit /\ [][BuildNext]_vars

(* the published match list of the result built *)
Published == response.data.matches

(* the positions of the published entries that have a price *)
Priced == {i \in 1..Len(Published) : Published[i].lowestPrice # Null}

(* C23: in the result of buildResult no published entry with a price        *)
(* follows one without, the prices are non-decreasing, and so the first     *)
(* entry has the lowest price of the list.                                  *)
C23_MatchesCheapestFirst ==
  response # <<>> =>
    /\ \A i, j \in 1..Len(Published) :
         i < j =>
           /\ j \in Priced => i \in Priced
           /\ (i \in Priced /\ j \in Priced) =>
                Published[i].lowestPrice <= Published[j].lowestPrice
    /\ Priced # {} =>
         /\ 1 \in Priced
         /\ \A j \in Priced : Published[1].lowestPrice <= Published[j].lowestPrice

C23_Witness ==
  /\ response # <<>>
  /\ Len(Published) = 3
  /\ Priced = {1, 2}
  /\ Published[1].lowestPrice < Published[2].lowestPrice
  /\ Published[1].entity = 3 /\ Published[2].entity = 2 /\ Published[3].entity = 1

RECURSIVE SumForSale(_)
SumForSale(ms) == IF Len(ms) = 0 THEN 0 ELSE Head(ms).numForSale + SumForSale(Tail(ms))

(* C24: in the result of buildResult every published entry has listings,    *)
(* the aggregate numForSale is the sum over the published entries, and the  *)
(* aggregate lowestPrice is the lowest price of a published entry, null     *)
(* when none has a price.                                                   *)
C24_AggregateOverPublished ==
  response # <<>> =>
    /\ \A i \in 1..Len(Published) : Published[i].numForSale > 0
    /\ response.data.numForSale = SumForSale(Published)
    /\ IF Priced = {} THEN response.data.lowestPrice = Null
       ELSE /\ \E i \in Priced : response.data.lowestPrice = Published[i].lowestPrice
            /\ \A i \in Priced : response.data.lowestPrice <= Published[i].lowestPrice

----------------------------------------------------------------------------
(* The popup's init(): token check, tab check, cache check, full search.    *)
(* What showResults draws into the main element is the subject of Spec;     *)
(* here only which element is visible, and for which data, is kept.         *)

MaxInits == 2

Elements == {"setup", "notYt", "loading", "error", "main"}

(* a flow f is a call of init() in progress *)
Flows == 1..Len(flows)

At(f, where) == flows[f].pc = where

Move(f, where) == [flows EXCEPT ![f].pc = where]

(* init() is called: at the end of the script, and by the click on saveBtn *)
(* once the token is stored                                                *)
KickOff ==
  /\ Len(flows) = 0
  /\ flows' = <<[pc |-> "token", cached |-> FALSE]>>
  /\ UNCHANGED <<visible, errorText, shown, lastRes, token>>
  /\ UNCHANGED <<popupVars, clockVars, cacheVars, discogsTimestamps, calls, fetchLog,
                 urlVars, trackVars, helperVars, contentVars>>

(* click on saveBtn with a value in tokenInput *)
SaveToken ==
  /\ "setup" \in visible
  /\ Len(flows) < MaxInits
  /\ token' = "token"
  /\ flows' = Append(flows, [pc |-> "token", cached |-> FALSE])
  /\ UNCHANGED <<visible, errorText, shown, lastRes>>
  /\ UNCHANGED <<popupVars, clockVars, cacheVars, discogsTimestamps, calls, fetchLog,
                 urlVars, trackVars, helperVars, contentVars>>

(* click on changeToken: hideAll(); show(setupEl) *)
ChangeToken ==
  /\ token # ""
  /\ \E f \in Flows : ~At(f, "token")
  /\ visible' = {"setup"}
  /\ UNCHANGED <<flows, errorText, shown, lastRes, token>>
  /\ UNCHANGED <<popupVars, clockVars, cacheVars, discogsTimestamps, calls, fetchLog,
                 urlVars, trackVars, helperVars, contentVars>>

(* step 1 of init(): the token read from chrome.storage.sync *)
InitToken(f) ==
  /\ At(f, "token")
  /\ IF token = ""
     THEN /\ visible' = {"setup"}
          /\ flows' = Move(f, "done")
     ELSE /\ visible' = visible \ {"setup"}
          /\ flows' = Move(f, "tab")
  /\ UNCHANGED <<errorText, shown, lastRes, token>>
  /\ UNCHANGED <<popupVars, clockVars, cacheVars, discogsTimestamps, calls, fetchLog,
                 urlVars, trackVars, helperVars, contentVars>>

(* steps 2 to 4 of init(): the active tab, its cleaned title, and the       *)
(* discogs-cache-check message                                              *)
InitTab(f, isWatch, hasQuery) ==
  /\ At(f, "tab")
  /\ IF ~isWatch \/ ~hasQuery
     THEN /\ visible' = {"notYt"}
          /\ flows' = Move(f, "done")
     ELSE /\ visible' = visible
          /\ flows' = Move(f, "cache-check")
  /\ UNCHANGED <<errorText, shown, lastRes, token>>
  /\ UNCHANGED <<popupVars, clockVars, cacheVars, discogsTimestamps, calls, fetchLog,
                 urlVars, trackVars, helperVars, contentVars>>

(* the answers to discogs-cache-check: the cached result of the query, or   *)
(* none                                                                     *)
CacheCheckAnswers == {"data", "none"}

(* the callback of discogs-cache-check: a cached result is drawn at once,   *)
(* else the loading element is shown; the full search is sent either way    *)
CacheCheckResponse(f, cacheRes) ==
  /\ At(f, "cache-check")
  /\ IF cacheRes = "data"
     THEN visible' = {"main"} /\ shown' = "cached"
     ELSE visible' = {"loading"} /\ shown' = shown
  /\ flows' = [flows EXCEPT ![f] = [pc |-> "full-search", cached |-> cacheRes = "data"]]
  /\ UNCHANGED <<errorText, lastRes, token>>
  /\ UNCHANGED <<popupVars, clockVars, cacheVars, discogsTimestamps, calls, fetchLog,
                 urlVars, trackVars, helperVars, contentVars>>

(* what the callback of discogs-full-search can get: chrome.runtime.lastError, *)
(* { error }, { data }, or a response with neither                          *)
FullSearchAnswers == {"lastError", "error", "data", "empty"}

(* C25 mutant: the error branches do not look at cacheRes *)
FullSearchResponseUnguarded(f, res) ==
  /\ At(f, "full-search")
  /\ flows' = Move(f, "done")
  /\ lastRes' = res
  /\ IF res = "lastError"
     THEN visible' = {"error"} /\ errorText' = "Extension error" /\ shown' = shown
     ELSE IF res = "error"
     THEN visible' = {"error"} /\ errorText' = "res.error" /\ shown' = shown
     ELSE IF res = "data"
     THEN visible' = {"main"} /\ shown' = "fresh" /\ errorText' = errorText
     ELSE UNCHANGED <<visible, errorText, shown>>
  /\ UNCHANGED token
  /\ UNCHANGED <<popupVars, clockVars, cacheVars, discogsTimestamps, calls, fetchLog,
                 urlVars, trackVars, helperVars, contentVars>>

(* the callback of discogs-full-search *)
FullSearchResponse(f, res) ==
  /\ At(f, "full-search")
  /\ flows' = Move(f, "done")
  /\ lastRes' = res
  /\ IF res = "lastError"
     THEN IF ~flows[f].cached
          THEN visible' = {"error"} /\ errorText' = "Extension error" /\ shown' = shown
          ELSE UNCHANGED <<visible, errorText, shown>>
     ELSE IF res = "error"
     THEN IF ~flows[f].cached
          THEN visible' = {"error"} /\ errorText' = "res.error" /\ shown' = shown
          ELSE UNCHANGED <<visible, errorText, shown>>
     ELSE IF res = "data"
     THEN visible' = {"main"} /\ shown' = "fresh" /\ errorText' = errorText
     ELSE UNCHANGED <<visible, errorText, shown>>
  /\ UNCHANGED token
  /\ UNCHANGED <<popupVars, clockVars, cacheVars, discogsTimestamps, calls, fetchLog,
                 urlVars, trackVars, helperVars, contentVars>>

(* the popup as it opens: the token stored or not, any one element showing *)
PopupInit ==
  /\ flows = <<>>
  /\ visible \in {{}, {"setup"}, {"loading"}}
  /\ errorText = ""
  /\ shown = ""
  /\ lastRes = ""
  /\ token \in {"", "token"}
  /\ discogsTimestamps = <<>> /\ calls = <<>> /\ fetchLog = <<>>
  /\ ParserIdle /\ PopupIdle /\ ClockIdle /\ CacheIdle /\ UrlIdle /\ TrackIdle /\ HelperIdle
  /\ ContentIdle

PopupNext ==
  \/ KickOff
  \/ SaveToken
  \/ ChangeToken
  \/ \E f \in Flows : InitToken(f)
  \/ \E f \in Flows, isWatch, hasQuery \in BOOLEAN : InitTab(f, isWatch, hasQuery)
  \/ \E f \in Flows, cacheRes \in CacheCheckAnswers : CacheCheckResponse(f, cacheRes)
  \/ \E f \in Flows, res \in FullSearchAnswers : FullSearchResponse(f, res)

PopupSpec == PopupInit /\ [][PopupNext]_vars

(* flow f gets a failed answer to its full search in this step *)
FailedAnswer(f) ==
  /\ f \in Flows
  /\ flows[f].pc = "full-search"
  /\ flows'[f].pc = "done"
  /\ lastRes' \in {"lastError", "error"}

(* C25: a failed answer to the full search of a flow whose cache check      *)
(* returned data leaves the visible elements, the text of the error element *)
(* and the data drawn as they are; the error element becomes visible only   *)
(* by a failed answer to a flow whose cache check returned no data.         *)
C25_CachedResultKept ==
  [][ /\ \A f \in Flows : (FailedAnswer(f) /\ flows[f].cached) =>
           /\ visible' = visible
           /\ errorText' = errorText
           /\ shown' = shown
      /\ ("error" \in visible' /\ ~("error" \in visible)) =>
           \E f \in Flows : FailedAnswer(f) /\ ~flows[f].cached ]_vars

C25_Witness ==
  /\ \E f \in Flows : flows[f].pc = "done" /\ flows[f].cached
  /\ \A f \in Flows : flows[f].pc = "done"
  /\ lastRes = "error"
  /\ visible = {"main"}
  /\ shown = "cached"

(* C26: computeMedian returns null for the empty array, the middle element  *)
(* for an odd length and the mean of the two central elements for an even   *)
(* length, length 2 included.                                               *)
C26_MedianOfSorted ==
  (helper = "computeMedian" /\ ret # <<>>) =>
    LET n == Len(arg) IN
    IF n = 0 THEN ret[1] = Null
    ELSE IF n % 2 = 1 THEN ret[1] = arg[(n + 1) \div 2]
    ELSE 2 * ret[1] = arg[n \div 2] + arg[(n \div 2) + 1]

C26_Witness ==
  /\ helper = "computeMedian" /\ ret # <<>>
  /\ Len(arg) = 2
  /\ arg[1] < ret[1] /\ ret[1] < arg[2]

(* the characters a normalized string is made of *)
NormalChars == {LowerCase[i] : i \in 1..Len(LowerCase)} \cup Digits \cup {" "}

(* only a-z, 0-9 and blanks, no blank at either end, no two blanks in a row *)
WellFormed(str) ==
  /\ \A i \in 1..Len(str) : str[i] \in NormalChars
  /\ Len(str) > 0 => str[1] # " " /\ str[Len(str)] # " "
  /\ \A i \in 1..(Len(str) - 1) : ~(str[i] = " " /\ str[i + 1] = " ")

(* C27: normalize applied to its own result gives that result again; the    *)
(* result holds only a-z, 0-9 and single blanks between them; null and      *)
(* undefined give the empty string.                                         *)
C27_NormalizeIdempotent ==
  (helper \in {"normalize", "normalize(null)", "normalize(undefined)"} /\ ret # <<>>) =>
    /\ normalize(ret[1]) = ret[1]
    /\ WellFormed(ret[1])
    /\ helper # "normalize" => ret[1] = <<>>

C27_Witness ==
  /\ helper = "normalize" /\ ret # <<>>
  /\ arg = <<"\t", "A", "!", " ">>
  /\ ret[1] = <<"a">>

(* the first sell page of the i-th match of the request answered, parsed    *)
(* under the filters of the request                                         *)
FirstParsed(i) ==
  parseFilteredPage(world[response.req.matches[i]][1].html,
                    response.req.usOnly, response.req.vgPlus)

(* what C28 says of the i-th match, p1 being its parsed first page *)
PagingBounded(i, p1) ==
  LET first == world[response.req.matches[i]][1]
      pages == lastRun.fetched[i]
  IN /\ pages # {} /\ pages \subseteq 1..MAX_SCRAPE_PAGES
     /\ 2 \in pages => /\ first.kind = "ok"
                       /\ p1.listingsOnPage >= FullPage
                       /\ p1.listingsOnPage < p1.total
     /\ (first.kind = "ok" /\ p1.total = 0) => pages = {1}
     /\ response.data.matchStats[i].numForSale >= 0

(* C28: scrapeFilteredListings fetches at most MAX_SCRAPE_PAGES pages, the  *)
(* second only after a first page that is full and holds fewer listings     *)
(* than its total, none after a first page with total 0, and it returns a   *)
(* result for every match.                                                  *)
C28_PagingBoundedByTotal ==
  response # <<>> =>
    /\ Len(response.data.matchStats) = Len(response.req.matches)
    /\ \A i \in 1..Len(response.req.matches) : PagingBounded(i, FirstParsed(i))

C28_Witness ==
  /\ response # <<>>
  /\ Len(response.req.matches) = 2
  /\ lastRun.fetched[1] = {1, 2}
  /\ lastRun.fetched[2] = {1}
  /\ world[response.req.matches[2]][1].kind = "ok"
  /\ FirstParsed(2).listingsOnPage = FullPage
  /\ FirstParsed(2).total = FullPage

----------------------------------------------------------------------------
(* One discogsGet call with a token set, against every status, with the     *)
(* timers of the limiter and of the back-off firing when they are due.      *)

(* time passes until the timer call c waits for is due *)
TimerDue(c) ==
  /\ calls[c].pc \in {"sleeping", "backoff"}
  /\ now < calls[c].wakeAt
  /\ now' = calls[c].wakeAt
  /\ UNCHANGED <<ticks, popupVars, cacheVars, rateVars, urlVars, trackVars, helperVars,
                 initVars, contentVars>>

GetStatusSet == {200, 401, 403, 404, 429, 500}

GetInit ==
  /\ now = RateStart
  /\ ticks = 0
  /\ token = "token"
  /\ \E n \in {0, RateLimit - 1, RateLimit} :
       /\ discogsTimestamps = History(n)
       /\ fetchLog = [i \in 1..n |-> History(n)[i] - FetchLatency]
  /\ calls = [c \in Callers |-> NewCall]
  /\ ParserIdle /\ PopupIdle /\ CacheIdle /\ UrlIdle /\ TrackIdle /\ HelperIdle /\ InitIdle /\ ContentIdle

(* the one search that calls discogsGet *)
GetCaller == "first search"

GetNext ==
  \/ CallStart(GetCaller)
  \/ TokenRead(GetCaller)
  \/ RateCheck(GetCaller)
  \/ RateWake(GetCaller)
  \/ \E status \in GetStatusSet, ra \in RetryAfterSet : FetchResponse(GetCaller, status, ra)
  \/ BackoffOver(GetCaller)
  \/ TimerDue(GetCaller)

GetSpec == GetInit /\ [][GetNext]_vars

(* the statuses call c has received, the last one apart *)
Earlier(c) == SubSeq(calls[c].seen, 1, Len(calls[c].seen) - 1)

(* C29: a discogsGet call issues at most 4 requests, one for the first      *)
(* attempt and one for each of 3 retries, each retry after a 429; it        *)
(* returns JSON on success and null on 403 or 404, throws at once on 401,   *)
(* and throws the rate-limit error on the fourth 429 in a row.              *)
C29_AtMostFourRequests ==
  \A c \in Callers :
    LET got == calls[c].seen
        last == got[Len(got)]
    IN /\ calls[c].fetches <= 4
       /\ Len(got) <= calls[c].fetches
       /\ \A i \in 1..Len(Earlier(c)) : Earlier(c)[i] = 429
       /\ Len(got) > 0 =>
            /\ last = 200 => calls[c].pc = "done" /\ calls[c].result = "json"
            /\ last \in {403, 404} => calls[c].pc = "done" /\ calls[c].result = "null"
            /\ last = 401 => calls[c].pc = "failed" /\ calls[c].error = "Invalid Discogs token."
            /\ (last = 429 /\ Len(got) = 4) =>
                 calls[c].pc = "failed" /\ calls[c].error = RateLimitError
            /\ (last = 429 /\ Len(got) < 4) => calls[c].pc \notin {"failed", "done"}
       /\ calls[c].error = RateLimitError => got = <<429, 429, 429, 429>>
       /\ calls[c].pc \in {"done", "failed"} => Len(got) = calls[c].fetches

C29_Witness ==
  /\ calls[GetCaller].error = RateLimitError
  /\ calls[GetCaller].fetches = 4
  /\ calls[GetCaller].waited
  /\ Len(fetchLog) = RateLimit + 4

----------------------------------------------------------------------------
(* The discogsGet calls of two searches with a token set, side by side on   *)
(* a budget that is exhausted or one fetch short of it. The event loop runs *)
(* a timer that is due and the continuation of a call that is not waiting   *)
(* for the network; a response may never arrive.                            *)

WaitStatusSet == {200, 429}

WaitRetryAfterSet == {1}

WaitInit ==
  /\ now = RateStart
  /\ ticks = 0
  /\ token = "token"
  /\ \E n \in {RateLimit - 1, RateLimit} :
       /\ discogsTimestamps = History(n)
       /\ fetchLog = [i \in 1..n |-> History(n)[i] - FetchLatency]
  /\ calls = [c \in Callers |-> NewCall]
  /\ ParserIdle /\ PopupIdle /\ CacheIdle /\ UrlIdle /\ TrackIdle /\ HelperIdle /\ InitIdle /\ ContentIdle

WaitNext ==
  \/ \E c \in Callers : CallStart(c)
  \/ \E c \in Callers : TokenRead(c)
  \/ \E c \in Callers : RateCheck(c)
  \/ \E c \in Callers : RateWake(c)
  \/ \E c \in Callers, status \in WaitStatusSet, ra \in WaitRetryAfterSet :
       FetchResponse(c, status, ra)
  \/ \E c \in Callers : BackoffOver(c)
  \/ \E c \in Callers : TimerDue(c)

(* timers fire when their time has come and the loop of waitForDiscogsRate  *)
(* goes on after its await                                                  *)
WaitFairness ==
  \A c \in Callers :
    /\ WF_vars(TimerDue(c))
    /\ WF_vars(RateWake(c))
    /\ WF_vars(RateCheck(c))

WaitSpec == WaitInit /\ [][WaitNext]_vars /\ WaitFairness

(* C30: a discogsGet call with a token that is in waitForDiscogsRate, put   *)
(* to sleep on an exhausted budget or about to test it, eventually leaves   *)
(* it and issues its fetch.                                                 *)
C30_DelayedNeverDropped ==
  \A c \in Callers :
    (calls[c].pc \in {"rate", "sleeping"}) ~> (calls[c].pc = "fetching")

(* both calls were put to sleep on the exhausted budget; the second search  *)
(* has fetched since and the first, put to sleep on a later stamp, fetches  *)
C30_Witness ==
  /\ calls["first search"].pc = "fetching"
  /\ calls["first search"].retries = 0
  /\ calls["first search"].wakeAt = RateStart - 1000 * (RateLimit - 2) + RateWindow + RateSlack
  /\ calls["second search"].wakeAt = RateStart - 1000 * (RateLimit - 1) + RateWindow + RateSlack
  /\ calls["second search"].stamps = 1

----------------------------------------------------------------------------
(* The popup: responses that arrive after the filters have moved on         *)

(* C31: a response to a discogs-filtered-stats request, a success or an     *)
(* error, changes the statistics drawn into globalStats only if the filter  *)
(* key at the time it arrives equals the key the request was issued for.    *)
C31_StaleResponseChangesNothing ==
  [][\A req \in inflight \ inflight' :
       display' # display => req.key = CurrentKey]_vars

(* the same for the responses that carry data *)
C31_StaleDataChangesNothing ==
  [][\A req \in inflight \ inflight' :
       (display' # display /\ display'.kind # "error") => req.key = CurrentKey]_vars

----------------------------------------------------------------------------
(* The parser: the fields of a result against one another                   *)

(* C32: in every result of parseFilteredPage, lowest is null exactly when   *)
(* prices is empty, and otherwise lowest is the least element of prices.    *)
C32_LowestIsMinOfPrices ==
  pc = "done" =>
    \A f \in Flags :
      /\ pg[f].lowest = Null <=> pg[f].prices = <<>>
      /\ pg[f].prices # <<>> =>
           /\ pg[f].lowest \in SeqElems(pg[f].prices)
           /\ \A v \in SeqElems(pg[f].prices) : pg[f].lowest <= v

(* two prices were taken and the second one is the lowest; under the VG+    *)
(* filter only the first one is left                                        *)
C32_Witness ==
  /\ pc = "done"
  /\ Len(pg[FF].prices) = 2
  /\ pg[FF].prices[2] < pg[FF].prices[1]
  /\ pg[FF].lowest = pg[FF].prices[2]
  /\ pg[VgOnly].prices = <<pg[FF].prices[1]>>

(* C33: in every result of parseFilteredPage, prices has no more entries    *)
(* than the matched count, and the matched count is no more than the        *)
(* on-page count.                                                           *)
C33_PricesWithinMatched ==
  pc = "done" =>
    \A f \in Flags :
      /\ Len(pg[f].prices) <= pg[f].matched
      /\ pg[f].matched <= pg[f].listingsOnPage

(* the second half alone *)
C33_MatchedWithinOnPage ==
  pc = "done" => \A f \in Flags : pg[f].matched <= pg[f].listingsOnPage

(* the first half on the pages where the cap of matched does not cut *)
C33_PricesWithinMatchedUncut ==
  pc = "done" =>
    \A f \in Flags :
      ~(PaginationFound(html) /\ pg[f].total > 0 /\ pg[f].matched = pg[f].total)
        => Len(pg[f].prices) <= pg[f].matched

----------------------------------------------------------------------------
(* The filtered statistics: the fields of a result against one another     *)

(* the results of scrapeFilteredListings in the answer of the listener *)
Scraped == response.data.matchStats

(* a > b as JavaScript compares: false when an operand is undefined or NaN *)
GreaterJS(a, b) == a \notin {Undefined, NaN} /\ b \notin {Undefined, NaN} /\ a > b

(* C34: the filtered count numForSale that scrapeFilteredListings returns,  *)
(* summed or extrapolated, never exceeds the unfiltered scrapedTotal it     *)
(* returns for the same entity.                                             *)
C34_FilteredWithinScrapedTotal ==
  StatsAnswered =>
    \A i \in 1..Len(Scraped) : ~GreaterJS(Scraped[i].numForSale, Scraped[i].scrapedTotal)

(* the pages fetched of every entity hold no more listings than the first   *)
(* page announced                                                           *)
WithinAnnounced ==
  \A i \in 1..Len(response.req.matches) :
    world[response.req.matches[i]] # GrownEntity

C34_FilteredWithinScrapedTotalWhenAnnounced ==
  (StatsAnswered /\ WithinAnnounced) =>
    \A i \in 1..Len(Scraped) : ~GreaterJS(Scraped[i].numForSale, Scraped[i].scrapedTotal)

Numeric(v) == v \notin {Undefined, NaN, Null}

RECURSIVE SumScrapedTotal(_, _)
(* the sum of the scrapedTotal of the first n results *)
SumScrapedTotal(stats, n) ==
  IF n = 0 THEN 0 ELSE SumScrapedTotal(stats, n - 1) + stats[n].scrapedTotal

(* C35: every result of scrapeFilteredListings, on each of its return      *)
(* paths, carries a numeric scrapedTotal, and the scrapedTotal of           *)
(* handleFilteredStats is the sum of the scrapedTotal of its entities.      *)
C35_ScrapedTotalNumeric ==
  StatsAnswered =>
    /\ \A i \in 1..Len(Scraped) : Numeric(Scraped[i].scrapedTotal)
    /\ Numeric(response.data.scrapedTotal)
    /\ response.data.scrapedTotal = SumScrapedTotal(Scraped, Len(Scraped))

(* no entity of the request has a first page whose total is 0 *)
NoEmptyFirstPage ==
  \A i \in 1..Len(response.req.matches) :
    LET first == world[response.req.matches[i]][1] IN
    first.kind = "ok" =>
      parseFilteredPage(first.html, response.req.usOnly, response.req.vgPlus).total # 0

C35_ScrapedTotalNumericUnlessEmpty ==
  (StatsAnswered /\ NoEmptyFirstPage) =>
    /\ \A i \in 1..Len(Scraped) : Numeric(Scraped[i].scrapedTotal)
    /\ Numeric(response.data.scrapedTotal)
    /\ response.data.scrapedTotal = SumScrapedTotal(Scraped, Len(Scraped))

----------------------------------------------------------------------------
(* The popup: the statistics objects it holds                               *)

(* lowestPrice and medianPrice of one statistics object *)
PricesAgree(s) ==
  /\ s.lowestPrice = Null <=> s.medianPrice = Null
  /\ s.lowestPrice # Null => s.lowestPrice <= s.medianPrice

(* C36: in every statistics object of buildResult, scrapeFilteredListings   *)
(* and handleFilteredStats, lowestPrice is null exactly when medianPrice is *)
(* null, and when both are set lowestPrice <= medianPrice.                  *)
C36_LowestNullIffMedianNull ==
  /\ PricesAgree(cachedData.global)
  /\ \A i \in 1..Len(cachedData.global.matches) : PricesAgree(cachedData.global.matches[i])
  /\ \A k \in DOMAIN cachedData.filtered :
       /\ PricesAgree(cachedData.filtered[k])
       /\ \A j \in 1..Len(cachedData.filtered[k].matchStats) :
            PricesAgree(cachedData.filtered[k].matchStats[j])

(* a search over two releases, and two answers of handleFilteredStats: one  *)
(* whose lowest price is below its median, one in which the second release  *)
(* has no price at all under the filter                                     *)
C36_Witness ==
  /\ Len(cachedData.global.matches) = 2
  /\ cachedData.global.lowestPrice # Null
  /\ \E k \in DOMAIN cachedData.filtered :
       /\ Len(cachedData.filtered[k].matchStats) = 2
       /\ cachedData.filtered[k].lowestPrice # Null
       /\ cachedData.filtered[k].lowestPrice < cachedData.filtered[k].medianPrice
  /\ \E k \in DOMAIN cachedData.filtered :
       /\ Len(cachedData.filtered[k].matchStats) = 2
       /\ cachedData.filtered[k].matchStats[2].lowestPrice = Null
       /\ cachedData.filtered[k].matchStats[2].medianPrice = Null
       /\ cachedData.filtered[k].lowestPrice # Null

----------------------------------------------------------------------------
(* fetchDiscogsDetails on its own: a list of discovery candidates, with     *)
(* repetitions, against the answers of the API.                             *)

MaxCands == 6

CandLists == UNION {[1..k -> {MasterCand, ReleaseCand}] : k \in 0..MaxCands}

(* every endpoint answers 200, or one of the three that fetchDiscogsDetails *)
(* calls answers otherwise                                                  *)
DetailsApis ==
  {a \in [Paths -> Behaviours] :
     /\ \A p \in Paths :
          a[p] # "200" => p \in {MasterPath(MasterId), ReleasePath(ReleaseId),
                                 VersionsPath(MasterId)}
     /\ \A p, q \in Paths : (a[p] # "200" /\ a[q] # "200") => p = q}

DetailsNets ==
  {n \in Nets : n.google = [kind |-> "ok", cands |-> <<>>] /\ n.api \in DetailsApis}

DetailsInit ==
  /\ helper = "fetchDiscogsDetails"
  /\ arg \in [net : DetailsNets, googleResults : CandLists, trackName : {"", "track"}]
  /\ ret = <<>>
  /\ ParserIdle /\ PopupIdle /\ ClockIdle /\ CacheIdle /\ RateIdle /\ UrlIdle /\ TrackIdle
  /\ InitIdle /\ ContentIdle

(* fetchDiscogsDetails(googleResults, trackName) settles *)
FetchDetails ==
  /\ helper = "fetchDiscogsDetails"
  /\ ret = <<>>
  /\ ret' = <<fetchDiscogsDetails(arg.net, arg.googleResults, arg.trackName, <<>>)>>
  /\ UNCHANGED <<helper, arg, popupVars, clockVars, cacheVars, rateVars, urlVars, trackVars,
                 initVars, contentVars>>

DetailsNext == FetchDetails

DetailsSpec == DetailsInit /\ [][DetailsNext]_vars

(* the candidates fetchDiscogsDetails may look at *)
FirstFive(googleResults) ==
  SubSeq(googleResults, 1, IF Len(googleResults) < 5 THEN Len(googleResults) ELSE 5)

(* the calls of a run for the detail of master id *)
MasterFetches(run, id) == {i \in 1..Len(run.calls) : run.calls[i].path = MasterPath(id)}

(* the result is that of the first five candidates *)
OnlyFirstFive ==
  ret[1] = fetchDiscogsDetails(arg.net, FirstFive(arg.googleResults), arg.trackName, <<>>)

MastersOnce == Cardinality(MasterFetches(ret[1], MasterId)) <= 1

NoRepeatedRelease ==
  \A i, j \in 1..Len(ret[1].matches) :
    (i # j /\ ret[1].matches[i].releaseId # Null)
      => ret[1].matches[i].releaseId # ret[1].matches[j].releaseId

(* C37: fetchDiscogsDetails examines at most the first 5 candidates,        *)
(* fetches the detail of each master at most once, and returns a match list *)
(* in which no two entries have the same non-null releaseId.                *)
C37_DetailsBoundedAndDistinct ==
  ret # <<>> => (OnlyFirstFive /\ MastersOnce /\ NoRepeatedRelease)

(* the first two parts alone *)
C37_DetailsBounded ==
  ret # <<>> => (OnlyFirstFive /\ MastersOnce)

(* no release candidate is pushed as itself next to another candidate *)
ReleaseReplaced ==
  \/ Len(arg.googleResults) <= 1
  \/ \A i \in 1..Len(arg.googleResults) : arg.googleResults[i].type = "master"
  \/ arg.net.releaseMaster # Null
  \/ ~arg.net.releaseIsVinyl
  \/ (arg.trackName # "" /\ ~arg.net.releaseHasTrack)

C37_DistinctWhenReplaced ==
  (ret # <<>> /\ ReleaseReplaced) => NoRepeatedRelease

----------------------------------------------------------------------------
(* The YouTube content script: navigations between watch pages, the timers  *)
(* that wait for the title, and the searches sent to the service worker.    *)

Videos == {"a", "b"}

(* a page that is not a watch page *)
Home == ""

(* the number of timers one call of onNavigate sets at most *)
PollLimit == 20

MaxNavs == 3

(* runSearch() on behalf of onNavigate call n: the title element holds text *)
(* that cleanTitle leaves non-empty; showLoading, then the message is sent  *)
runSearch(n) ==
  /\ runs' = Append(runs, [nav |-> n, vid |-> currentVideoId', query |-> domTitle',
                           answered |-> FALSE])
  /\ panel' = [kind |-> "loading", run |-> Len(runs) + 1]

(* tryRun() of onNavigate call n after `attempts` timers: the search when   *)
(* the title is there, else one more timer while attempts++ < 20            *)
tryRun(n, attempts, others) ==
  IF domTitle' # ""
  THEN /\ runSearch(n)
       /\ timers' = others
  ELSE /\ timers' = IF attempts < PollLimit
                    THEN others \cup {[nav |-> n, attempts |-> attempts + 1]}
                    ELSE others
       /\ UNCHANGED <<runs, panel>>

(* onNavigate() on the page shown *)
onNavigate ==
  /\ navs' = navs + 1
  /\ IF location' = Home
     THEN /\ currentVideoId' = ""
          /\ UNCHANGED <<timers, runs, panel>>
     ELSE IF location' = currentVideoId
     THEN UNCHANGED <<currentVideoId, timers, runs, panel>>
     ELSE /\ currentVideoId' = location'
          /\ tryRun(navs + 1, 0, timers)

(* yt-navigate-finish: the page has changed to loc; the title element holds *)
(* the text it held, or has lost it                                         *)
NavigateFinish(loc, keepsTitle) ==
  /\ navs < MaxNavs
  /\ location' = loc
  /\ domTitle' = IF keepsTitle THEN domTitle ELSE ""
  /\ onNavigate
  /\ UNCHANGED loadTimer
  /\ UNCHANGED <<popupVars, clockVars, cacheVars, rateVars, urlVars, trackVars, helperVars,
                 initVars>>

(* setTimeout(onNavigate, 1500) of the first page load *)
LoadTimer ==
  /\ loadTimer
  /\ loadTimer' = FALSE
  /\ UNCHANGED <<location, domTitle>>
  /\ onNavigate
  /\ UNCHANGED <<popupVars, clockVars, cacheVars, rateVars, urlVars, trackVars, helperVars,
                 initVars>>

(* YouTube renders the title of the video shown *)
TitleRendered ==
  /\ location # Home
  /\ domTitle # location
  /\ domTitle' = location
  /\ UNCHANGED <<location, currentVideoId, navs, loadTimer, timers, runs, panel>>
  /\ UNCHANGED <<popupVars, clockVars, cacheVars, rateVars, urlVars, trackVars, helperVars,
                 initVars>>

(* setTimeout(tryRun, 500) fires *)
PollTimer(t) ==
  /\ t \in timers
  /\ UNCHANGED <<location, domTitle, currentVideoId, navs, loadTimer>>
  /\ tryRun(t.nav, t.attempts, timers \ {t})
  /\ UNCHANGED <<popupVars, clockVars, cacheVars, rateVars, urlVars, trackVars, helperVars,
                 initVars>>

ResponseKinds == {"results", "error"}

(* the callback of sendMessage of search i: showResults or showError *)
SearchResponse(i, kind) ==
  /\ i \in 1..Len(runs)
  /\ ~runs[i].answered
  /\ runs' = [runs EXCEPT ![i].answered = TRUE]
  /\ panel' = [kind |-> kind, run |-> i]
  /\ UNCHANGED <<location, domTitle, currentVideoId, navs, loadTimer, timers>>
  /\ UNCHANGED <<popupVars, clockVars, cacheVars, rateVars, urlVars, trackVars, helperVars,
                 initVars>>

ContentInit ==
  /\ location \in Videos \cup {Home}
  /\ domTitle \in {"", location}
  /\ currentVideoId = ""
  /\ navs = 0
  /\ loadTimer = TRUE
  /\ timers = {}
  /\ runs = <<>>
  /\ panel = NoPanel
  /\ ParserIdle /\ PopupIdle /\ ClockIdle /\ CacheIdle /\ RateIdle /\ UrlIdle /\ TrackIdle
  /\ HelperIdle /\ InitIdle

ContentNext ==
  \/ \E loc \in Videos \cup {Home}, keepsTitle \in BOOLEAN : NavigateFinish(loc, keepsTitle)
  \/ LoadTimer
  \/ TitleRendered
  \/ \E t \in timers : PollTimer(t)
  \/ \E i \in 1..Len(runs), kind \in ResponseKinds : SearchResponse(i, kind)

ContentSpec == ContentInit /\ [][ContentNext]_vars

(* the searches started by onNavigate call n *)
SearchesOf(n) == {i \in 1..Len(runs) : runs[i].nav = n}

(* the panel shows the response of a search although a search for another  *)
(* video has been started after it                                          *)
Overwritten ==
  /\ panel.kind \in ResponseKinds
  /\ \E j \in (panel.run + 1)..Len(runs) : runs[j].vid # runs[panel.run].vid

OneSearchEach == \A n \in 1..navs : Cardinality(SearchesOf(n)) <= 1

(* C38: each navigation to a new video id starts at most one search, and    *)
(* the response to a search issued for an earlier video never overwrites    *)
(* the panel once the search of a later video has started.                  *)
C38_OneSearchNoStaleResponse ==
  OneSearchEach /\ ~Overwritten

(* the first half alone *)
C38_OneSearchPerNavigation == OneSearchEach

----------------------------------------------------------------------------
(* The popup: the release list under the filters                            *)

(* the list on the screen once the answer for the current key is drawn *)
ListShown == MatchList(Shown, cachedData.global.matches, selectedMatchIndex)

ListDrawn == CurrentKey \in DOMAIN cachedData.filtered /\ Len(ListShown) > 1

(* entry i has copies and shows a lower price than the badged entry *)
Undercut(list, i) ==
  /\ list[i].count > 0 /\ list[i].price # Null
  /\ list[1].price # Null /\ list[1].price > list[i].price

(* C39: in the release list of the popup, under every filter state and      *)
(* every filtered-stats result, the entry with the "Best Price" badge, the  *)
(* one of index 0, shows a price that is <= the price shown for every other *)
(* entry with copies available.                                             *)
C39_BadgeOnCheapest ==
  ListDrawn => \A i \in 2..Len(ListShown) : ~Undercut(ListShown, i)

(* the same with no filter set and no release selected *)
C39_BadgeOnCheapestUnfiltered ==
  (ListDrawn /\ ~usToggle /\ ~vgToggle /\ selectedMatchIndex = Null)
    => \A i \in 2..Len(ListShown) : ~Undercut(ListShown, i)

====
